---- MODULE Spec2Model ----
(***************************************************************************)
(* napd-local-control: the pump-selection / fault-latch controller         *)
(* (application.py) and the dashboard's change-detecting telemetry         *)
(* snapshot (dashboard.py).                                                *)
(*                                                                         *)
(* Conventions                                                             *)
(*  - Python None is the empty tuple << >>; a present value v is <<v>>.    *)
(*  - A Python dict is a function whose DOMAIN is the set of its keys.     *)
(*  - Floats are fixed-point integers in hundredths (10.04 is 1004); the   *)
(*    tolerances of update_from_dict are scaled the same way (0.05 is 5).  *)
(*  - datetime.now() is a logical clock: each reading is one later than    *)
(*    the last timestamp stored in the snapshot.                           *)
(*  - lastOp, ret, emitted, tagWrites and log_errors record what the last  *)
(*    handler that ran was and what it returned, emitted over socketio,    *)
(*    wrote to the tag store and logged at error level.                    *)
(***************************************************************************)
EXTENDS Integers, Sequences, FiniteSets, TLC

VARIABLES
    hh_pressure_active,     \* NapdLocalControlApplication.hh_pressure_active
    ll_tank_level_active,   \* NapdLocalControlApplication.ll_tank_level_active
    start_first_callback,   \* NapdLocalControlApplication.start_first_callback
    selected_pump,          \* DashboardInterface.selected_pump
    data,                   \* NAPDDashboard.data (DashboardData)
    connected_clients,      \* NAPDDashboard.connected_clients
    AppState,               \* tag store: the AppState tag of each pump application
    lastOp,                 \* the handler that ran last
    ret,                    \* its return value
    emitted,                \* the socketio events it emitted, in order
    tagWrites,              \* the tags it wrote, in order
    log_errors,             \* what it logged at error level
    startEdges,             \* start-channel edges handled so far
    toggles,                \* toggleSelectedPump calls so far
    setUsed,                \* whether setSelectedPump was ever called
    announced,              \* selected_pump of the last pump_selection_changed
    last_ai_input,          \* NapdLocalControlApplication.last_ai_input
    prev_ai_input,          \* the reading update_target_rate took one tick ago
    raised,                 \* the exception the last control-loop step raised
    StateString,            \* tag store: the StateString tag of each pump
    DO,                     \* tag store: platform tag DO<pin> of each start LED
    AO,                     \* tag store: platform tag AO<pin> of each fault LED
    do_out,                 \* platform: the level each start LED is driven to
    ao_out,                 \* platform: the level each fault LED is driven to
    ioWrites,               \* the set_do / set_ao calls of the last LED tick
    solar_controllers,      \* config.solar_controllers.elements
    SolarTags,              \* tag store: the tags of each solar controller
    solar_args,             \* the arguments of the last update_solar_data call
    awaiting,               \* pump_number of the update_target_rate that awaits
    received,               \* the last data_update each subscriber was sent
    transport_down,         \* the subscribers whose connection has failed
    updating,               \* the update_from_dict call a thread is inside
    serving,                \* the to_dict call another thread is inside
    handed,                 \* the document the last to_dict call returned
    wholes                  \* the snapshots left by whole update operations

appVars  == <<hh_pressure_active, ll_tank_level_active, start_first_callback>>
histVars == <<startEdges, toggles, setUsed>>

\* The potentiometer, the LEDs and the solar controllers: what the selection
\* and dashboard handlers never touch.
\* The control loop's coroutine in flight and the subscribers' connections.
threadVars ==
    <<awaiting, received, transport_down, updating, serving, handed, wholes>>

plantVars == <<last_ai_input, prev_ai_input, raised, StateString, DO, AO,
               do_out, ao_out, ioWrites, solar_controllers, SolarTags,
               solar_args, threadVars>>

vars == <<hh_pressure_active, ll_tank_level_active, start_first_callback,
          selected_pump, data, connected_clients, AppState, lastOp, ret,
          emitted, tagWrites, log_errors, startEdges, toggles, setUsed,
          announced, plantVars>>

----------------------------------------------------------------------------
(* Bounds *)

MaxTime == 2
MaxEdges == 3
MaxToggles == 3

----------------------------------------------------------------------------
(* Values *)

None == << >>
Some(v) == <<v>>

Abs(x) == IF x < 0 THEN -x ELSE x

PRESSURE_HH == "pressure_high_high_level"
TANK_LL == "tank_level_low_low_level"

Pumps == {"pump_1", "pump_2"}
AppStates == {None, Some("running"), Some(PRESSURE_HH), Some(TANK_LL)}
PumpNumbers == {0, 1, 2, 3}
Subscribers == {"sid1", "sid2"}

\* dict.get(key): the value, or None when the key is missing.
Get(dict, key) == IF key \in DOMAIN dict THEN dict[key] ELSE None

----------------------------------------------------------------------------
(* DashboardData (dashboard.py) *)

\* DashboardData.__init__
DashboardData_init ==
    [ target_rate |-> 0, flow_rate |-> 0, pump_state |-> "standby",
      pump2_target_rate |-> 0, pump2_flow_rate |-> 0,
      pump2_pump_state |-> "standby",
      battery_voltage |-> 0, battery_percentage |-> 0, panel_power |-> 0,
      battery_ah |-> 0,
      tank_level_mm |-> 0, tank_level_percent |-> 0,
      skid_flow |-> 0, skid_pressure |-> 0,
      timestamp |-> 0, system_status |-> "running",
      faults |-> [hh_pressure |-> FALSE, ll_tank_level |-> FALSE] ]

\* datetime.isoformat(): the timestamp as a string, one string per instant.
isoformat(t) == <<"iso", t>>

\* DashboardData.to_dict
to_dict(d) ==
    [ pump |-> [ target_rate |-> d.target_rate, flow_rate |-> d.flow_rate,
                 pump_state |-> d.pump_state ],
      pump2 |-> [ target_rate |-> d.pump2_target_rate,
                  flow_rate |-> d.pump2_flow_rate,
                  pump_state |-> d.pump2_pump_state ],
      solar |-> [ battery_voltage |-> d.battery_voltage,
                  battery_percentage |-> d.battery_percentage,
                  panel_power |-> d.panel_power,
                  battery_ah |-> d.battery_ah ],
      tank |-> [ tank_level_mm |-> d.tank_level_mm,
                 tank_level_percent |-> d.tank_level_percent ],
      skid |-> [ skid_flow |-> d.skid_flow,
                 skid_pressure |-> d.skid_pressure ],
      system |-> [ timestamp |-> isoformat(d.timestamp),
                   status |-> d.system_status ],
      faults |-> [ hh_pressure |-> d.faults.hh_pressure,
                   ll_tank_level |-> d.faults.ll_tank_level ] ]

\* DashboardData._to_bool on a bool or None (the callers pass nothing else):
\* a bool is itself, anything that is no bool, number or string the default.
_to_bool(value, default) == IF value = None THEN default ELSE value[1]

\* The tolerance update_from_dict passes for each numeric attribute, in
\* hundredths.
tolerance(attr) ==
    CASE attr \in {"target_rate", "flow_rate",
                   "pump2_target_rate", "pump2_flow_rate"} -> 5
      [] attr \in {"battery_voltage", "panel_power", "battery_ah",
                   "skid_flow"} -> 10
      [] attr = "battery_percentage" -> 20
      [] attr \in {"tank_level_mm", "tank_level_percent"} -> 100
      [] attr = "skid_pressure" -> 1000

\* within_tolerance with a strict comparison: a difference equal to the
\* tolerance is taken as a change.
within_tolerance_strict(current_value, new_value, tol) ==
    Abs(current_value - new_value) < tol

\* The comparison of _update_numeric on finite values: no update within the
\* tolerance.
within_tolerance(current_value, new_value, tol) ==
    Abs(current_value - new_value) <= tol

\* _update_numeric that reads a None input as 0.0.
_update_numeric_none_as_zero(d, attr, value, tol) ==
    LET new_value == IF value = None THEN 0 ELSE value[1]
    IN  IF Abs(d[attr] - new_value) <= tol
        THEN [data |-> d, changed |-> FALSE]
        ELSE [data |-> [d EXCEPT ![attr] = new_value], changed |-> TRUE]

\* DashboardData._update_numeric: <<the data after, the value returned>>.
_update_numeric(d, attr, value, tol) ==
    IF value = None
    THEN [data |-> d, changed |-> FALSE]
    ELSE LET new_value == value[1]
         IN  IF within_tolerance(d[attr], new_value, tol)
             THEN [data |-> d, changed |-> FALSE]
             ELSE [data |-> [d EXCEPT ![attr] = new_value], changed |-> TRUE]

\* DashboardData._update_string
_update_string(d, attr, value) ==
    IF value = None
    THEN [data |-> d, changed |-> FALSE]
    ELSE LET new_value == value[1]
         IN  IF d[attr] = new_value
             THEN [data |-> d, changed |-> FALSE]
             ELSE [data |-> [d EXCEPT ![attr] = new_value], changed |-> TRUE]

\* One fault key of update_from_dict (lines 176-185).
update_fault(d, faults, key) ==
    IF key \in DOMAIN faults
    THEN LET new_value == _to_bool(faults[key], d.faults[key])
         IN  IF d.faults[key] # new_value
             THEN [data |-> [d EXCEPT !.faults[key] = new_value],
                   changed |-> TRUE]
             ELSE [data |-> d, changed |-> FALSE]
    ELSE [data |-> d, changed |-> FALSE]

\* "changed |= step": the accumulated result r followed by the step's.
Then(r, step) == [data |-> step.data, changed |-> r.changed \/ step.changed]

\* The one element of a singleton set.  (The steps below bind the result so
\* far to x, so that it is computed once however often the step reads it.)
The(set) == CHOOSE out \in set : TRUE

numeric(r, group, key, attr) ==
    The({Then(x, _update_numeric(x.data, attr, Get(group, key),
                                 tolerance(attr))) :
            x \in {r}})

\* pump.get("pump_state", self.pump_state): the stored value when missing.
string(r, group, key, attr) ==
    The({Then(x, _update_string(x.data, attr,
                    IF key \in DOMAIN group THEN group[key]
                                            ELSE Some(x.data[attr]))) :
            x \in {r}})

fault(r, faults, key) ==
    The({Then(x, update_fault(x.data, faults, key)) : x \in {r}})

\* The timestamp update_from_dict stores when something changed.
stamp(r, now) ==
    The({IF x.changed
         THEN [x EXCEPT !.data = [x.data EXCEPT !.timestamp = now]]
         ELSE x : x \in {r}})

\* DashboardData.update_from_dict(kw) at clock reading now:
\* [data |-> the data after, changed |-> the value returned].
update_from_dict(d, kw, now) ==
    LET r0 == [data |-> d, changed |-> FALSE]
        r1 == IF "pump" \in DOMAIN kw
              THEN string(numeric(numeric(r0,
                        kw.pump, "target_rate", "target_rate"),
                        kw.pump, "flow_rate", "flow_rate"),
                        kw.pump, "pump_state", "pump_state")
              ELSE r0
        r2 == IF "pump2" \in DOMAIN kw
              THEN string(numeric(numeric(r1,
                        kw.pump2, "target_rate", "pump2_target_rate"),
                        kw.pump2, "flow_rate", "pump2_flow_rate"),
                        kw.pump2, "pump_state", "pump2_pump_state")
              ELSE r1
        r3 == IF "solar" \in DOMAIN kw
              THEN numeric(numeric(numeric(numeric(r2,
                        kw.solar, "battery_voltage", "battery_voltage"),
                        kw.solar, "battery_percentage", "battery_percentage"),
                        kw.solar, "panel_power", "panel_power"),
                        kw.solar, "battery_ah", "battery_ah")
              ELSE r2
        r4 == IF "tank" \in DOMAIN kw
              THEN numeric(numeric(r3,
                        kw.tank, "tank_level_mm", "tank_level_mm"),
                        kw.tank, "tank_level_percent", "tank_level_percent")
              ELSE r3
        r5 == IF "skid" \in DOMAIN kw
              THEN numeric(numeric(r4,
                        kw.skid, "skid_flow", "skid_flow"),
                        kw.skid, "skid_pressure", "skid_pressure")
              ELSE r4
        r6 == IF "system" \in DOMAIN kw
              THEN string(r5, kw.system, "status", "system_status")
              ELSE r5
        r7 == IF "faults" \in DOMAIN kw
              THEN fault(fault(r6, kw.faults, "hh_pressure"),
                         kw.faults, "ll_tank_level")
              ELSE r6
    IN  stamp(r7, now)

----------------------------------------------------------------------------
(* NAPDDashboard and DashboardInterface (dashboard.py) *)

\* datetime.now(), read to stamp the snapshot.
datetime_now == data.timestamp + 1

\* socketio.emit(event, payload): to every connected socket.
\* emit(event, payload) inside a handler: to the socket that sent the message.
Event(name, to, payload) == [event |-> name, to |-> to, payload |-> payload]

\* NAPDDashboard.broadcast_update on snapshot d
broadcast_update(d) ==
    IF connected_clients # {}
    THEN << Event("data_update", "all", to_dict(d)) >>
    ELSE << >>

\* update_data_result that broadcasts whether or not anything changed.
update_data_result_always_broadcasts(kwargs) ==
    The({[data |-> r.data, changed |-> r.changed,
          emitted |-> broadcast_update(r.data)] :
            r \in {IF DOMAIN kwargs # {}
                   THEN update_from_dict(data, kwargs, datetime_now)
                   ELSE [data |-> data, changed |-> FALSE]}})

\* What NAPDDashboard.update_data(**kwargs) does on the current snapshot:
\* the snapshot after it, the value update_from_dict returned and the events
\* emitted.
update_data_result(kwargs) ==
    The({[data |-> r.data, changed |-> r.changed,
          emitted |-> IF r.changed THEN broadcast_update(r.data) ELSE << >>] :
            r \in {IF DOMAIN kwargs # {}
                   THEN update_from_dict(data, kwargs, datetime_now)
                   ELSE [data |-> data, changed |-> FALSE]}})

\* NAPDDashboard.update_data(**kwargs): the snapshot and the events after it.
update_data(kwargs) ==
    \E r \in {update_data_result(kwargs)} :
        /\ r.changed => data.timestamp < MaxTime
        /\ data' = r.data
        /\ emitted' = r.emitted

\* set_faults that passes each flag under the other's key.
set_faults_swapped(hh_pressure, ll_tank_level) ==
    update_data([faults |-> [hh_pressure |-> Some(ll_tank_level),
                             ll_tank_level |-> Some(hh_pressure)]])

\* DashboardInterface.set_faults
set_faults(hh_pressure, ll_tank_level) ==
    update_data([faults |-> [hh_pressure |-> Some(hh_pressure),
                             ll_tank_level |-> Some(ll_tank_level)]])

\* DashboardInterface.clear_faults
clear_faults == set_faults(FALSE, FALSE)

\* The payload of pump_selection_changed (its own timestamp, a clock reading
\* nothing reads back, is left out).
pump_selection_changed(pump) ==
    Event("pump_selection_changed", "all", [selected_pump |-> pump])

\* toggled that never leaves pump 2.
toggled_stuck(pump) == 2

\* The selection toggleSelectedPump stores (line 481).
toggled(pump) == IF pump = 1 THEN 2 ELSE 1

\* toggleSelectedPump that announces the selection it replaced.
toggleSelectedPump_announces_old ==
    /\ toggles < MaxToggles
    /\ selected_pump' = toggled(selected_pump)
    /\ emitted' = << pump_selection_changed(selected_pump) >>
    /\ announced' = Some(selected_pump)
    /\ toggles' = toggles + 1

\* DashboardInterface.toggleSelectedPump, as called by a handler.
toggleSelectedPump ==
    /\ toggles < MaxToggles
    /\ selected_pump' = toggled(selected_pump)
    /\ emitted' = << pump_selection_changed(toggled(selected_pump)) >>
    /\ announced' = Some(toggled(selected_pump))
    /\ toggles' = toggles + 1

\* DashboardInterface.getSelectedPump
getSelectedPump == selected_pump

\* valid_pump_number as a range check that starts one too low.
valid_pump_number_from_zero(pump_number) == pump_number \in 0..2

\* The argument check of setSelectedPump (line 498).
valid_pump_number(pump_number) == pump_number \in {1, 2}

\* DashboardInterface.setSelectedPump(pump_number)
setSelectedPump(pump_number) ==
    /\ IF valid_pump_number(pump_number)
       THEN /\ selected_pump' = pump_number
            /\ emitted' = << pump_selection_changed(pump_number) >>
            /\ announced' = Some(pump_number)
            /\ log_errors' = << >>
            /\ ret' = Some(pump_number)
       ELSE /\ selected_pump' = selected_pump
            /\ emitted' = << >>
            /\ announced' = announced
            /\ log_errors' = << <<"Invalid pump number", pump_number>> >>
            /\ ret' = Some(selected_pump)
    /\ setUsed' = TRUE
    /\ lastOp' = "setSelectedPump"
    /\ tagWrites' = << >>
    /\ UNCHANGED <<plantVars, appVars, data, connected_clients, AppState,
                   startEdges, toggles>>

\* A direct call of DashboardInterface.toggleSelectedPump.
call_toggleSelectedPump ==
    /\ toggleSelectedPump
    /\ ret' = Some(selected_pump')
    /\ lastOp' = "toggleSelectedPump"
    /\ tagWrites' = << >>
    /\ log_errors' = << >>
    /\ UNCHANGED <<plantVars, appVars, data, connected_clients, AppState,
                   startEdges, setUsed>>

\* The keyword arguments that are not None, as the dict the update_*_data
\* methods build.
NotNone(args) == [k \in {key \in DOMAIN args : args[key] # None} |-> args[k]]

\* The keyword arguments one of the update_*_data methods passes to
\* update_data: group=dict, and no call (as a call without arguments, which
\* changes nothing) when the dict is empty.
update_group_kwargs(group, args) ==
    IF DOMAIN NotNone(args) # {}
    THEN [g \in {group} |-> NotNone(args)]
    ELSE << >>

\* One of the update_*_data methods: update_data(group=dict) unless the dict
\* is empty.
update_group(op, group, args) ==
    /\ update_data(update_group_kwargs(group, args))
    /\ lastOp' = op
    /\ ret' = None
    /\ tagWrites' = << >>
    /\ log_errors' = << >>
    /\ UNCHANGED <<plantVars, announced, appVars, selected_pump,
                   connected_clients, AppState,
                   histVars>>

\* DashboardInterface.update_pump_data
update_pump_data(target_rate, flow_rate, pump_state) ==
    update_group("update_pump_data", "pump",
                 [target_rate |-> target_rate, flow_rate |-> flow_rate,
                  pump_state |-> pump_state])

\* DashboardInterface.update_pump2_data
update_pump2_data(target_rate, flow_rate, pump_state) ==
    update_group("update_pump2_data", "pump2",
                 [target_rate |-> target_rate, flow_rate |-> flow_rate,
                  pump_state |-> pump_state])

\* DashboardInterface.update_solar_data
update_solar_data(battery_voltage, battery_percentage, array_voltage, battery_ah) ==
    update_group("update_solar_data", "solar",
                 [battery_voltage |-> battery_voltage,
                  battery_percentage |-> battery_percentage,
                  panel_power |-> array_voltage,
                  battery_ah |-> battery_ah])

\* DashboardInterface.update_tank_data
update_tank_data(tank_level_mm, tank_level_percent) ==
    update_group("update_tank_data", "tank",
                 [tank_level_mm |-> tank_level_mm,
                  tank_level_percent |-> tank_level_percent])

\* DashboardInterface.update_skid_data
update_skid_data(skid_flow, skid_pressure) ==
    update_group("update_skid_data", "skid",
                 [skid_flow |-> skid_flow, skid_pressure |-> skid_pressure])

\* DashboardInterface.update_system_status
update_system_status(status) ==
    /\ update_data([system |-> [status |-> Some(status)]])
    /\ lastOp' = "update_system_status"
    /\ ret' = None
    /\ tagWrites' = << >>
    /\ log_errors' = << >>
    /\ UNCHANGED <<plantVars, announced, appVars, selected_pump,
                   connected_clients, AppState,
                   histVars>>

\* A direct call of DashboardInterface.set_faults.
call_set_faults(hh_pressure, ll_tank_level) ==
    /\ set_faults(hh_pressure, ll_tank_level)
    /\ lastOp' = "set_faults"
    /\ ret' = None
    /\ tagWrites' = << >>
    /\ log_errors' = << >>
    /\ UNCHANGED <<plantVars, announced, appVars, selected_pump,
                   connected_clients, AppState,
                   histVars>>

\* What a socketio handler leaves alone besides the snapshot.
handlerFrame ==
    /\ ret' = None
    /\ tagWrites' = << >>
    /\ log_errors' = << >>
    /\ UNCHANGED <<plantVars, announced, appVars, selected_pump, AppState,
                   histVars>>

\* handle_connect, for the socket request.sid
handle_connect(sid) ==
    /\ connected_clients' = connected_clients \cup {sid}
    /\ emitted' = << Event("data_update", sid, to_dict(data)) >>
    /\ data' = data
    /\ lastOp' = "handle_connect"
    /\ handlerFrame

\* handle_disconnect
handle_disconnect(sid) ==
    /\ connected_clients' = connected_clients \ {sid}
    /\ emitted' = << >>
    /\ data' = data
    /\ lastOp' = "handle_disconnect"
    /\ handlerFrame

\* handle_data_request that answers every subscriber.
handle_data_request_broadcasts(sid) ==
    /\ sid \in connected_clients
    /\ emitted' = << Event("data_update", "all", to_dict(data)) >>
    /\ UNCHANGED <<data, connected_clients>>
    /\ lastOp' = "handle_data_request"
    /\ handlerFrame

\* handle_data_request ('request_data')
handle_data_request(sid) ==
    /\ sid \in connected_clients
    /\ emitted' = << Event("data_update", sid, to_dict(data)) >>
    /\ UNCHANGED <<data, connected_clients>>
    /\ lastOp' = "handle_data_request"
    /\ handlerFrame

\* handle_pump_state_change that stores the state and tells nobody.
handle_pump_state_change_silent(sid, payload) ==
    /\ sid \in connected_clients
    /\ IF "state" \in DOMAIN payload
       THEN /\ data.timestamp < MaxTime
            /\ data' = [data EXCEPT !.pump_state = payload.state,
                                    !.timestamp = datetime_now]
            /\ emitted' = << >>
       ELSE data' = data /\ emitted' = << >>
    /\ UNCHANGED connected_clients
    /\ lastOp' = "handle_pump_state_change"
    /\ handlerFrame

\* handle_pump_state_change ('set_pump_state'), payload a dict
handle_pump_state_change(sid, payload) ==
    /\ sid \in connected_clients
    /\ IF "state" \in DOMAIN payload
       THEN /\ data.timestamp < MaxTime
            /\ data' = [data EXCEPT !.pump_state = payload.state,
                                    !.timestamp = datetime_now]
            /\ emitted' = broadcast_update(data')
       ELSE data' = data /\ emitted' = << >>
    /\ UNCHANGED connected_clients
    /\ lastOp' = "handle_pump_state_change"
    /\ handlerFrame

\* handle_pump_selection_request ('request_pump_selection'): the interface
\* is always set (lines 367, 371), and the sender is told the selection.
handle_pump_selection_request(sid) ==
    /\ sid \in connected_clients
    /\ emitted' = << Event("pump_selection_changed", sid,
                           [selected_pump |-> getSelectedPump]) >>
    /\ announced' = Some(getSelectedPump)
    /\ lastOp' = "handle_pump_selection_request"
    /\ ret' = None
    /\ tagWrites' = << >>
    /\ log_errors' = << >>
    /\ UNCHANGED <<plantVars, appVars, selected_pump, data, connected_clients,
                   AppState, histVars>>

\* The acknowledgement of a toggle_selected_pump message.
pump_selection_toggled(sid) ==
    Event("pump_selection_toggled", sid,
          [message |-> "Pump selection toggle requested"])

\* handle_toggle_selected_pump that does toggle the selection.
handle_toggle_selected_pump_toggles(sid) ==
    /\ sid \in connected_clients
    /\ toggleSelectedPump
    /\ lastOp' = "handle_toggle_selected_pump"
    /\ ret' = None
    /\ tagWrites' = << >>
    /\ log_errors' = << >>
    /\ UNCHANGED <<plantVars, appVars, data, connected_clients, AppState,
                   startEdges, setUsed>>

\* handle_toggle_selected_pump ('toggle_selected_pump')
handle_toggle_selected_pump(sid) ==
    /\ sid \in connected_clients
    /\ emitted' = << pump_selection_toggled(sid) >>
    /\ UNCHANGED <<data, connected_clients>>
    /\ lastOp' = "handle_toggle_selected_pump"
    /\ handlerFrame

\* One iteration of the loop of _background_updates (the heartbeat thread).
_background_updates ==
    /\ data.timestamp < MaxTime
    /\ data' = [data EXCEPT !.timestamp = datetime_now]
    /\ emitted' = IF connected_clients # {}
                  THEN << Event("heartbeat", "all",
                                [timestamp |-> isoformat(datetime_now)]) >>
                  ELSE << >>
    /\ UNCHANGED connected_clients
    /\ lastOp' = "_background_updates"
    /\ handlerFrame

----------------------------------------------------------------------------
(* NapdLocalControlApplication (application.py) *)

\* config.pump_1.value, config.pump_2.value: the pump applications' keys.
pump_1 == "pump_1"
pump_2 == "pump_2"

\* The pump application publishes its AppState tag (read by get_tag).
publish_AppState(app, value) ==
    /\ AppState[app] # value
    /\ AppState' = [AppState EXCEPT ![app] = value]
    /\ lastOp' = "publish_AppState"
    /\ ret' = None
    /\ emitted' = << >>
    /\ tagWrites' = << >>
    /\ log_errors' = << >>
    /\ UNCHANGED <<plantVars, announced, appVars, selected_pump, data,
                   connected_clients, histVars>>

\* check_faults_flags with flags that follow the condition instead of
\* latching it.
check_faults_flags_following(hh, ll, p1_app_state, p2_app_state) ==
    [hh |-> Some(PRESSURE_HH) \in {p1_app_state, p2_app_state},
     ll |-> Some(TANK_LL) \in {p1_app_state, p2_app_state}]

\* The fault flags after check_faults observed p1 and p2 (lines 80-83).
check_faults_flags(hh, ll, p1_app_state, p2_app_state) ==
    IF Some(PRESSURE_HH) \in {p1_app_state, p2_app_state}
    THEN [hh |-> TRUE, ll |-> ll]
    ELSE IF Some(TANK_LL) \in {p1_app_state, p2_app_state}
         THEN [hh |-> hh, ll |-> TRUE]
         ELSE [hh |-> hh, ll |-> ll]

\* check_faults, the first step of main_loop
check_faults ==
    LET flags == check_faults_flags(hh_pressure_active, ll_tank_level_active,
                                    AppState[pump_1], AppState[pump_2])
    IN  /\ hh_pressure_active' = flags.hh
        /\ ll_tank_level_active' = flags.ll
        /\ set_faults(flags.hh, flags.ll)
        /\ lastOp' = "check_faults"
        /\ ret' = None
        /\ tagWrites' = << >>
        /\ log_errors' = << >>
        /\ UNCHANGED <<plantVars, announced, start_first_callback,
                       selected_pump, connected_clients,
                       AppState, histVars>>

\* selector_button_callback that toggles even when it acknowledges faults.
selector_button_callback_always_toggles ==
    /\ IF hh_pressure_active \/ ll_tank_level_active
       THEN /\ hh_pressure_active' = FALSE
            /\ ll_tank_level_active' = FALSE
            /\ toggleSelectedPump
            /\ data' = [data EXCEPT !.faults = [hh_pressure |-> FALSE,
                                                ll_tank_level |-> FALSE]]
       ELSE /\ toggleSelectedPump
            /\ UNCHANGED <<hh_pressure_active, ll_tank_level_active, data>>
    /\ lastOp' = "selector_button_callback"
    /\ ret' = None
    /\ tagWrites' = << >>
    /\ log_errors' = << >>
    /\ UNCHANGED <<plantVars, start_first_callback, connected_clients, AppState,
                   startEdges, setUsed>>

\* selector_button_callback: acknowledge the faults, else toggle.
selector_button_callback ==
    /\ IF hh_pressure_active \/ ll_tank_level_active
       THEN /\ hh_pressure_active' = FALSE
            /\ ll_tank_level_active' = FALSE
            /\ clear_faults
            /\ UNCHANGED <<selected_pump, toggles, announced>>
       ELSE /\ toggleSelectedPump
            /\ UNCHANGED <<hh_pressure_active, ll_tank_level_active, data>>
    /\ lastOp' = "selector_button_callback"
    /\ ret' = None
    /\ tagWrites' = << >>
    /\ log_errors' = << >>
    /\ UNCHANGED <<plantVars, start_first_callback, connected_clients, AppState,
                   startEdges, setUsed>>

\* set_tag(tag, value, app), as a record of the write
TagWrite(tag, value, app) == [tag |-> tag, value |-> value, app |-> app]

\* update_pump_state_tag(pump_number, state): the tags it writes.
update_pump_state_tag(pump_number, state) ==
    IF pump_number = 1
    THEN << TagWrite("StateWrite", state, pump_1) >>
    ELSE IF pump_number = 2
         THEN << TagWrite("StateWrite", state, pump_2) >>
         ELSE << >>

\* start_pump_writes without the first-callback guard.
start_pump_writes_unguarded(first_callback_seen, pump_number) ==
    update_pump_state_tag(pump_number, 2)

\* The tags one start edge writes (lines 158-165).
start_pump_writes(first_callback_seen, pump_number) ==
    IF ~first_callback_seen
    THEN << >>
    ELSE update_pump_state_tag(pump_number, 2)

\* start_pump_callback
start_pump_callback ==
    /\ startEdges < MaxEdges
    /\ startEdges' = startEdges + 1
    /\ start_first_callback' = TRUE
    /\ tagWrites' = start_pump_writes(start_first_callback, getSelectedPump)
    /\ lastOp' = "start_pump_callback"
    /\ ret' = None
    /\ emitted' = << >>
    /\ log_errors' = << >>
    /\ UNCHANGED <<plantVars, announced, hh_pressure_active,
                   ll_tank_level_active, selected_pump,
                   data, connected_clients, AppState, toggles, setUsed>>

\* stop_pump_writes that stops both pumps.
stop_pump_writes_both(pump_number) ==
    update_pump_state_tag(1, 0) \o update_pump_state_tag(2, 0)

\* The tags one stop edge writes (lines 170-172).
stop_pump_writes(pump_number) == update_pump_state_tag(pump_number, 0)

\* stop_pump_callback
stop_pump_callback ==
    /\ tagWrites' = stop_pump_writes(getSelectedPump)
    /\ lastOp' = "stop_pump_callback"
    /\ ret' = None
    /\ emitted' = << >>
    /\ log_errors' = << >>
    /\ UNCHANGED <<plantVars, announced, appVars, selected_pump, data,
                   connected_clients, AppState,
                   histVars>>

----------------------------------------------------------------------------
(* The controller: the tick's fault observation, the three pulse channels  *)
(* and the selection interface, with the pump applications publishing      *)
(* their AppState.  The state is that after __init__ and setup().          *)

\* The solar controller applications that can be configured.
Controllers == {"solar_1", "solar_2"}

\* The tags of a solar controller that has published nothing.
NoReading ==
    [b_voltage |-> None, b_percent |-> None, panel_voltage |-> None,
     remaining_ah |-> None]

\* The state after __init__ and setup() with the solar controllers of the
\* deployment configuration and the potentiometer reading setup() took.
InitWith(controllers, reading) ==
    /\ hh_pressure_active = FALSE
    /\ ll_tank_level_active = FALSE
    /\ start_first_callback = FALSE
    /\ selected_pump = 1
    /\ data = DashboardData_init
    /\ connected_clients = {}
    /\ AppState = [app \in Pumps |-> None]
    /\ lastOp = "init"
    /\ ret = None
    /\ emitted = << >>
    /\ tagWrites = << >>
    /\ log_errors = << >>
    /\ startEdges = 0
    /\ toggles = 0
    /\ setUsed = FALSE
    /\ announced = None
    /\ last_ai_input = reading
    /\ prev_ai_input = reading
    /\ raised = None
    /\ StateString = [app \in Pumps |-> None]
    /\ DO = [app \in Pumps |-> None]
    /\ AO = [app \in Pumps |-> None]
    /\ do_out = [app \in Pumps |-> FALSE]
    /\ ao_out = [app \in Pumps |-> 0]
    /\ ioWrites = << >>
    /\ solar_controllers = controllers
    /\ SolarTags = [c \in Controllers |-> NoReading]
    /\ solar_args = None
    /\ awaiting = None
    /\ received = [sid \in Subscribers |-> None]
    /\ transport_down = {}
    /\ updating = None
    /\ serving = None
    /\ handed = None
    /\ wholes = {}

\* A deployment with both solar controllers, the potentiometer at 12.00.
Init == InitWith(Controllers, Some(1200))

Next ==
    \/ \E app \in Pumps, value \in AppStates : publish_AppState(app, value)
    \/ check_faults
    \/ selector_button_callback
    \/ start_pump_callback
    \/ stop_pump_callback
    \/ call_toggleSelectedPump
    \/ \E pump_number \in PumpNumbers : setSelectedPump(pump_number)
    \/ \E sid \in Subscribers : handle_connect(sid)
    \/ \E sid \in Subscribers : handle_disconnect(sid)
    \/ \E sid \in Subscribers : handle_pump_selection_request(sid)
    \/ \E sid \in Subscribers : handle_toggle_selected_pump(sid)

Spec == Init /\ [][Next]_vars

----------------------------------------------------------------------------
(* The dashboard: the telemetry snapshot under the update_*_data calls of  *)
(* the control loop, the heartbeat thread and the subscribers' messages.   *)

PumpStates == {"standby", "pumping", "fault"}

\* The readings offered for a numeric attribute: one at the tolerance and one
\* just beyond it (of the initial 0.0); for pump 1's target rate 10.00, 10.04
\* and 10.06.
Offered(attr) ==
    IF attr = "target_rate"
    THEN {Some(1000), Some(1004), Some(1006)}
    ELSE {Some(tolerance(attr)), Some(tolerance(attr) + 1)}

\* The pump states offered by the control loop.
OfferedStates == {Some("pumping"), Some("fault")}

\* The keyword arguments offered to one update_*_data call, numeric keys
\* nums and string keys strs, attribute names prefixed by pre: all of them
\* None, one of them present, or all numeric ones present and beyond the
\* tolerance.
OfferedArgs(pre, nums, strs) ==
    LET keys == nums \cup strs
        none == [k \in keys |-> None]
    IN  {none}
        \cup UNION {{[none EXCEPT ![k] = v] : v \in Offered(pre \o k)} :
                    k \in nums}
        \cup {[none EXCEPT ![k] = v] : k \in strs, v \in OfferedStates}
        \cup {[k \in keys |-> IF k \in nums
                               THEN Some(tolerance(pre \o k) + 1)
                               ELSE None]}

PumpArgs == OfferedArgs("", {"target_rate", "flow_rate"}, {"pump_state"})
Pump2Args == OfferedArgs("pump2_", {"target_rate", "flow_rate"}, {"pump_state"})
SolarArgs == OfferedArgs("", {"battery_voltage", "battery_percentage",
                              "panel_power", "battery_ah"}, {})
TankArgs == OfferedArgs("", {"tank_level_mm", "tank_level_percent"}, {})
SkidArgs == OfferedArgs("", {"skid_flow", "skid_pressure"}, {})

\* The payloads of set_pump_state: no state field, or one.
Payloads == { << >> } \cup {[state |-> st] : st \in PumpStates \cup {"bogus"}}

NextDashboard ==
    \/ \E a \in PumpArgs :
          update_pump_data(a.target_rate, a.flow_rate, a.pump_state)
    \/ \E a \in Pump2Args :
          update_pump2_data(a.target_rate, a.flow_rate, a.pump_state)
    \/ \E a \in SolarArgs :
          update_solar_data(a.battery_voltage, a.battery_percentage,
                            a.panel_power, a.battery_ah)
    \/ \E a \in TankArgs :
          update_tank_data(a.tank_level_mm, a.tank_level_percent)
    \/ \E a \in SkidArgs : update_skid_data(a.skid_flow, a.skid_pressure)
    \/ \E status \in {"running", "standby"} : update_system_status(status)
    \/ \E hh \in BOOLEAN, ll \in BOOLEAN : call_set_faults(hh, ll)
    \/ \E sid \in Subscribers : handle_connect(sid)
    \/ \E sid \in Subscribers : handle_disconnect(sid)
    \/ \E sid \in Subscribers : handle_data_request(sid)
    \/ \E sid \in Subscribers, payload \in Payloads :
          handle_pump_state_change(sid, payload)
    \/ _background_updates

SpecDashboard == Init /\ [][NextDashboard]_vars

----------------------------------------------------------------------------
(* Delivery: socketio.emit hands the events of a handler to the server,    *)
(* which pushes them to the subscribers' sockets before the next handler   *)
(* runs.  A push to a socket whose connection has failed reaches nobody:   *)
(* the server closes that socket and raises its disconnect event, which    *)
(* handle_disconnect serves; the pushes to the other sockets go on.        *)

\* The subscribers an event is pushed to.
addressees(event) == IF event.to = "all" THEN connected_clients ELSE {event.to}

\* The data_update events among the events emitted that are pushed to sid.
pushed(sid) ==
    SelectSeq(emitted, LAMBDA event : event.event = "data_update" /\ sid \in addressees(event))

\* handle_disconnect that leaves the set as it is.
disconnected_none(clients, sids) == clients

\* connected_clients after handle_disconnect ran for each of sids (discard,
\* line 257).
disconnected(clients, sids) == clients \ sids

\* The connection of a connected subscriber fails.
connection_fails(sid) ==
    /\ sid \in connected_clients \ transport_down
    /\ transport_down' = transport_down \cup {sid}
    /\ lastOp' = "connection_fails"
    /\ ret' = None
    /\ emitted' = << >>
    /\ tagWrites' = << >>
    /\ log_errors' = << >>
    /\ UNCHANGED <<appVars, selected_pump, data, connected_clients, AppState,
                   histVars, announced>>
    /\ UNCHANGED <<last_ai_input, prev_ai_input, raised,
                   StateString, DO, AO, do_out, ao_out, ioWrites,
                   solar_controllers, SolarTags, solar_args, awaiting,
                   received, updating, serving, handed, wholes>>

\* The server pushes the events emitted: every addressee whose connection
\* is up receives them, and every addressee whose connection has failed is
\* disconnected.
deliver ==
    /\ emitted # << >>
    /\ LET pushed_to == UNION {addressees(emitted[i]) : i \in DOMAIN emitted}
           failed == pushed_to \cap transport_down
       IN  /\ received' =
                [sid \in Subscribers |->
                    IF sid \notin transport_down /\ pushed(sid) # << >>
                    THEN Some(pushed(sid)[Len(pushed(sid))].payload)
                    ELSE received[sid]]
           /\ connected_clients' = disconnected(connected_clients, failed)
           /\ transport_down' = transport_down \ failed
    /\ emitted' = << >>
    /\ lastOp' = "deliver"
    /\ ret' = None
    /\ tagWrites' = << >>
    /\ log_errors' = << >>
    /\ UNCHANGED <<appVars, selected_pump, data, AppState, histVars, announced,
                   last_ai_input, prev_ai_input, raised, StateString, DO, AO,
                   do_out, ao_out, ioWrites, solar_controllers, SolarTags,
                   solar_args, awaiting, updating, serving, handed, wholes>>

\* The readings the control loop passes to update_pump_data in this
\* specification.
DeliveryArgs == {Some(1000), Some(1006)}

\* The server has pushed the events of the handler that ran last.
all_pushed == emitted = << >>

\* Each handler runs when the events of the one before are pushed.
NextDelivery ==
    \/ \E target_rate \in DeliveryArgs :
          all_pushed /\ update_pump_data(target_rate, None, None)
    \/ all_pushed /\ _background_updates
    \/ \E sid \in Subscribers \ transport_down :
          all_pushed /\ handle_connect(sid)
    \/ \E sid \in Subscribers \ transport_down :
          all_pushed /\ handle_disconnect(sid)
    \/ \E sid \in Subscribers \ transport_down :
          all_pushed /\ handle_data_request(sid)
    \/ \E sid \in Subscribers : all_pushed /\ connection_fails(sid)
    \/ deliver

SpecDelivery == Init /\ [][NextDelivery]_vars

\* The control loop keeps ticking, the heartbeat thread keeps running and
\* the server keeps pushing; the subscribers' messages may stop.
SpecDeliveryFair ==
    /\ SpecDelivery
    /\ WF_vars(deliver)
    /\ WF_vars(all_pushed /\ _background_updates)
    /\ \A target_rate \in DeliveryArgs :
          WF_vars(all_pushed /\ update_pump_data(target_rate, None, None))


----------------------------------------------------------------------------
(* Threads: the control loop calls update_data in its own thread while the *)
(* server's threads serve the subscribers (to_dict) and the heartbeat      *)
(* thread writes the timestamp.  No lock guards DashboardData, so the      *)
(* threads interleave between the attribute reads and writes.              *)

\* The variables the threads of the dashboard leave alone.
outsideDashboard ==
    <<appVars, selected_pump, connected_clients, AppState, histVars, announced,
      last_ai_input, prev_ai_input, raised, StateString, DO, AO, do_out,
      ao_out, ioWrites, solar_controllers, SolarTags, solar_args, awaiting,
      received, transport_down>>

Statement(group, key, attr, kind) == [group |-> group, key |-> key, attr |-> attr, kind |-> kind]

\* The attribute updates of update_from_dict, in the order of lines 140-185.
statements ==
    << Statement("pump", "target_rate", "target_rate", "numeric"),
       Statement("pump", "flow_rate", "flow_rate", "numeric"),
       Statement("pump", "pump_state", "pump_state", "string"),
       Statement("pump2", "target_rate", "pump2_target_rate", "numeric"),
       Statement("pump2", "flow_rate", "pump2_flow_rate", "numeric"),
       Statement("pump2", "pump_state", "pump2_pump_state", "string"),
       Statement("solar", "battery_voltage", "battery_voltage", "numeric"),
       Statement("solar", "battery_percentage", "battery_percentage", "numeric"),
       Statement("solar", "panel_power", "panel_power", "numeric"),
       Statement("solar", "battery_ah", "battery_ah", "numeric"),
       Statement("tank", "tank_level_mm", "tank_level_mm", "numeric"),
       Statement("tank", "tank_level_percent", "tank_level_percent", "numeric"),
       Statement("skid", "skid_flow", "skid_flow", "numeric"),
       Statement("skid", "skid_pressure", "skid_pressure", "numeric"),
       Statement("system", "status", "system_status", "string"),
       Statement("faults", "hh_pressure", "hh_pressure", "fault"),
       Statement("faults", "ll_tank_level", "ll_tank_level", "fault") >>

\* The first statement from pos on whose group is in kw ("if group in
\* data"), or the end.
next_statement(kw, pos) ==
    LET found == {i \in pos..Len(statements) : statements[i].group \in DOMAIN kw}
    IN  IF found = {}
        THEN Len(statements) + 1
        ELSE CHOOSE i \in found : \A j \in found : i <= j

\* One statement of update_from_dict on the result so far.
execute(r, kw, statement) ==
    CASE statement.kind = "numeric" ->
            numeric(r, kw[statement.group], statement.key, statement.attr)
      [] statement.kind = "string" ->
            string(r, kw[statement.group], statement.key, statement.attr)
      [] statement.kind = "fault" -> fault(r, kw.faults, statement.key)

\* The keyword arguments the control loop passes in this specification.
ThreadKwargs ==
    { update_group_kwargs("pump", [target_rate |-> Some(1006),
                                   flow_rate |-> Some(1006),
                                   pump_state |-> Some("pumping")]),
      update_group_kwargs("pump", [target_rate |-> Some(2000),
                                   flow_rate |-> None,
                                   pump_state |-> None]) }

\* update_data(**kw) enters update_from_dict.
update_from_dict_called(kw) ==
    /\ updating = None
    /\ updating' = Some([kw |-> kw, pos |-> next_statement(kw, 1),
                         changed |-> FALSE])
    /\ lastOp' = "update_from_dict_called"
    /\ emitted' = << >>
    /\ ret' = None
    /\ tagWrites' = << >>
    /\ log_errors' = << >>
    /\ UNCHANGED <<data, serving, handed, wholes, outsideDashboard>>

\* update_from_dict executes its next statement.
update_from_dict_executes ==
    /\ updating # None
    /\ updating[1].pos <= Len(statements)
    /\ \E r \in {execute([data |-> data, changed |-> updating[1].changed],
                         updating[1].kw, statements[updating[1].pos])} :
          /\ data' = r.data
          /\ updating' = Some([updating[1] EXCEPT
                                  !.pos = next_statement(updating[1].kw, @ + 1),
                                  !.changed = r.changed])
    /\ lastOp' = "update_from_dict_executes"
    /\ emitted' = << >>
    /\ ret' = None
    /\ tagWrites' = << >>
    /\ log_errors' = << >>
    /\ UNCHANGED <<serving, handed, wholes, outsideDashboard>>

\* update_from_dict stamps the snapshot if something changed and returns,
\* and update_data broadcasts if it returned True.
update_from_dict_returns ==
    /\ updating # None
    /\ updating[1].pos > Len(statements)
    /\ \E r \in {stamp([data |-> data, changed |-> updating[1].changed],
                       datetime_now)} :
          /\ r.changed => data.timestamp < MaxTime
          /\ data' = r.data
          /\ emitted' = IF r.changed THEN broadcast_update(r.data) ELSE << >>
          /\ wholes' = wholes \cup {r.data}
    /\ updating' = None
    /\ lastOp' = "update_from_dict_returns"
    /\ ret' = None
    /\ tagWrites' = << >>
    /\ log_errors' = << >>
    /\ UNCHANGED <<serving, handed, outsideDashboard>>

\* The heartbeat thread writes the timestamp (line 342): a whole operation
\* on the snapshot as it is and on every snapshot a whole operation left.
heartbeat_writes ==
    /\ data.timestamp < MaxTime
    /\ data' = [data EXCEPT !.timestamp = datetime_now]
    /\ wholes' = wholes
                 \cup (IF updating = None THEN {data'} ELSE {})
                 \cup {[whole EXCEPT !.timestamp = datetime_now] :
                          whole \in wholes \cup {DashboardData_init}}
    /\ lastOp' = "heartbeat_writes"
    /\ emitted' = << >>
    /\ ret' = None
    /\ tagWrites' = << >>
    /\ log_errors' = << >>
    /\ UNCHANGED <<updating, serving, handed, outsideDashboard>>

\* The attributes to_dict reads, in the order of lines 57-89; the last two
\* are the keys of faults.
reads ==
    << "target_rate", "flow_rate", "pump_state", "pump2_target_rate",
       "pump2_flow_rate", "pump2_pump_state", "battery_voltage",
       "battery_percentage", "panel_power", "battery_ah", "tank_level_mm",
       "tank_level_percent", "skid_flow", "skid_pressure", "timestamp",
       "system_status", "hh_pressure", "ll_tank_level" >>

\* A thread of the server enters to_dict (handle_connect, request_data,
\* /api/data).
to_dict_called ==
    /\ serving = None
    /\ serving' = Some([d |-> DashboardData_init, pos |-> 1])
    /\ lastOp' = "to_dict_called"
    /\ emitted' = << >>
    /\ ret' = None
    /\ tagWrites' = << >>
    /\ log_errors' = << >>
    /\ UNCHANGED <<data, updating, handed, wholes, outsideDashboard>>

\* to_dict reads its next attribute into the document it builds.
to_dict_reads ==
    /\ serving # None
    /\ serving[1].pos <= Len(reads)
    /\ LET attr == reads[serving[1].pos]
       IN  serving' =
              Some([d |-> IF attr \in DOMAIN data.faults
                          THEN [serving[1].d EXCEPT
                                   !.faults[attr] = data.faults[attr]]
                          ELSE [serving[1].d EXCEPT ![attr] = data[attr]],
                    pos |-> serving[1].pos + 1])
    /\ lastOp' = "to_dict_reads"
    /\ emitted' = << >>
    /\ ret' = None
    /\ tagWrites' = << >>
    /\ log_errors' = << >>
    /\ UNCHANGED <<data, updating, handed, wholes, outsideDashboard>>

\* to_dict returns the document.
to_dict_returns ==
    /\ serving # None
    /\ serving[1].pos > Len(reads)
    /\ handed' = Some(to_dict(serving[1].d))
    /\ serving' = None
    /\ lastOp' = "to_dict_returns"
    /\ emitted' = << >>
    /\ ret' = None
    /\ tagWrites' = << >>
    /\ log_errors' = << >>
    /\ UNCHANGED <<data, updating, wholes, outsideDashboard>>

NextThreads ==
    \/ \E kw \in ThreadKwargs : update_from_dict_called(kw)
    \/ update_from_dict_executes
    \/ update_from_dict_returns
    \/ heartbeat_writes
    \/ to_dict_called
    \/ to_dict_reads
    \/ to_dict_returns

SpecThreads == Init /\ [][NextThreads]_vars

----------------------------------------------------------------------------
(* The LEDs: update_pump_leds, the last step of main_loop, with the pump    *)
(* applications publishing their StateString and the platform publishing   *)
(* the level of its outputs.  An LED pin is named by its pump.  Analog      *)
(* levels are in hundredths: 0.1 is 10 and 100 is 10000.                    *)

\* What the selection, fault and dashboard handlers own.
controllerVars ==
    <<appVars, selected_pump, data, connected_clients, AppState, histVars,
      announced>>

\* The values of a StateString tag.
StateStrings == {None, Some("standby"), Some("pumping"), Some("fault")}

\* The pump application app publishes its state string.
publish_StateString(app, value) ==
    /\ StateString[app] # value
    /\ StateString' = [StateString EXCEPT ![app] = value]
    /\ lastOp' = "publish_StateString"
    /\ ret' = None
    /\ emitted' = << >>
    /\ tagWrites' = << >>
    /\ log_errors' = << >>
    /\ UNCHANGED threadVars
    /\ UNCHANGED <<controllerVars, last_ai_input, prev_ai_input, raised, DO, AO,
                   do_out, ao_out, ioWrites, solar_controllers, SolarTags,
                   solar_args>>

\* The platform publishes the level the start LED of app is driven to.
publish_DO(app) ==
    /\ DO[app] # Some(do_out[app])
    /\ DO' = [DO EXCEPT ![app] = Some(do_out[app])]
    /\ lastOp' = "publish_DO"
    /\ ret' = None
    /\ emitted' = << >>
    /\ tagWrites' = << >>
    /\ log_errors' = << >>
    /\ UNCHANGED threadVars
    /\ UNCHANGED <<controllerVars, last_ai_input, prev_ai_input, raised,
                   StateString, AO, do_out, ao_out, ioWrites,
                   solar_controllers, SolarTags, solar_args>>

\* The platform publishes the level the fault LED of app is driven to.
publish_AO(app) ==
    /\ AO[app] # Some(ao_out[app])
    /\ AO' = [AO EXCEPT ![app] = Some(ao_out[app])]
    /\ lastOp' = "publish_AO"
    /\ ret' = None
    /\ emitted' = << >>
    /\ tagWrites' = << >>
    /\ log_errors' = << >>
    /\ UNCHANGED threadVars
    /\ UNCHANGED <<controllerVars, last_ai_input, prev_ai_input, raised,
                   StateString, DO, do_out, ao_out, ioWrites,
                   solar_controllers, SolarTags, solar_args>>

\* platform_iface.set_do(pin, value) / set_ao(pin, value), as a record
IoWrite(op, pin, value) == [op |-> op, pin |-> pin, value |-> value]

\* bool(led_state) of a DO tag: None and False are falsy.
led_on(led_state) == led_state = Some(TRUE)

\* The fault-LED part of update_pump_leds (lines 99-108).
fault_led_writes(hh, ll, p1_fault_led_state, p2_fault_led_state) ==
    IF p1_fault_led_state # None /\ p2_fault_led_state # None
    THEN IF hh \/ ll
         THEN IF p1_fault_led_state[1] < 10 \/ p2_fault_led_state[1] < 10
              THEN << IoWrite("set_ao", pump_1, 10000),
                      IoWrite("set_ao", pump_2, 10000) >>
              ELSE << >>
         ELSE IF p1_fault_led_state[1] > 0 \/ p2_fault_led_state[1] > 0
              THEN << IoWrite("set_ao", pump_1, 0),
                      IoWrite("set_ao", pump_2, 0) >>
              ELSE << >>
    ELSE << >>

\* start_led_writes that drives the LED to the level of the state on every
\* tick, whatever the LED reads.
start_led_writes_every_tick(pump, state_string, led_state) ==
    IF state_string = Some("pumping")
    THEN << IoWrite("set_do", pump, TRUE) >>
    ELSE IF state_string = Some("standby")
         THEN << IoWrite("set_do", pump, FALSE) >>
         ELSE << >>

\* The start-LED part of update_pump_leds for one pump (lines 110-124).
start_led_writes(pump, state_string, led_state) ==
    IF state_string = Some("pumping")
    THEN IF ~led_on(led_state)
         THEN << IoWrite("set_do", pump, TRUE) >>
         ELSE << >>
    ELSE IF state_string = Some("standby")
         THEN IF led_on(led_state)
              THEN << IoWrite("set_do", pump, FALSE) >>
              ELSE << >>
         ELSE << >>

\* The level output pin of kind op is driven to after the writes, from level.
driven(writes, op, pin, level) ==
    LET hits == {i \in DOMAIN writes :
                    writes[i].op = op /\ writes[i].pin = pin}
    IN  IF hits = {}
        THEN level
        ELSE writes[CHOOSE i \in hits : \A j \in hits : j <= i].value

\* update_pump_leds: the tags are read before the first await, so the
\* writes are those of the values read.
update_pump_leds ==
    LET writes == fault_led_writes(hh_pressure_active, ll_tank_level_active,
                                   AO[pump_1], AO[pump_2])
                  \o start_led_writes(pump_1, StateString[pump_1], DO[pump_1])
                  \o start_led_writes(pump_2, StateString[pump_2], DO[pump_2])
    IN  /\ ioWrites' = writes
        /\ do_out' = [app \in Pumps |->
                         driven(writes, "set_do", app, do_out[app])]
        /\ ao_out' = [app \in Pumps |->
                         driven(writes, "set_ao", app, ao_out[app])]
        /\ raised' = None
        /\ lastOp' = "update_pump_leds"
        /\ ret' = None
        /\ emitted' = << >>
        /\ tagWrites' = << >>
        /\ log_errors' = << >>
        /\ UNCHANGED threadVars
        /\ UNCHANGED <<controllerVars, last_ai_input, prev_ai_input,
                       StateString, DO, AO, solar_controllers, SolarTags,
                       solar_args>>

NextLeds ==
    \/ \E app \in Pumps, value \in StateStrings :
          publish_StateString(app, value)
    \/ \E app \in Pumps : publish_DO(app)
    \/ \E app \in Pumps : publish_AO(app)
    \/ update_pump_leds

SpecLeds == Init /\ [][NextLeds]_vars

\* The fault LEDs with the latch: the pumps publish their status, ticks run
\* check_faults and update_pump_leds, the selector button acknowledges, and
\* the platform publishes the fault-LED levels.
NextFaultLeds ==
    \/ \E app \in Pumps, value \in AppStates : publish_AppState(app, value)
    \/ check_faults
    \/ selector_button_callback
    \/ \E app \in Pumps : publish_AO(app)
    \/ update_pump_leds

SpecFaultLeds == Init /\ [][NextFaultLeds]_vars

----------------------------------------------------------------------------
(* The target rate: update_target_rate, the second step of main_loop.       *)
(* Readings and voltages are in hundredths of a volt (12.5 is 1250), the    *)
(* rate written in hundredths of a percent (50.00 is 5000).  The reading is *)
(* what get_pot_reading returns, after its Kalman filter.                   *)

\* The readings of the potentiometer the model offers.
Readings == {-1200, 0, 1200, 1210, 1220, 1250, 1300}

\* The values of the platform's voltage tag the model offers.
Voltages == {None, Some(0), Some(1200), Some(2400), Some(2500)}

\* last_ai_input * 0.99 < ai_input < last_ai_input * 1.01 (line 129)
in_band(last, ai_input) == 99 * last < 100 * ai_input /\ 100 * ai_input < 101 * last

\* voltage_or_default with a default of 24.0.
voltage_or_default_24(sys_voltage) ==
    IF sys_voltage = None \/ sys_voltage = Some(0) THEN 2400 ELSE sys_voltage[1]

\* "if not sys_voltage: sys_voltage = 25.0" (lines 132-134): None and 0 are
\* falsy.
voltage_or_default(sys_voltage) ==
    IF sys_voltage = None \/ sys_voltage = Some(0) THEN 2500 ELSE sys_voltage[1]

\* round(num / den, 0) for num >= 0 and den > 0: the nearest integers.  On a
\* tie the float quotient decides; both neighbours are kept.
rounded(num, den) ==
    LET q == num \div den
        rem == num % den
    IN  IF 2 * rem < den THEN {q}
        ELSE IF 2 * rem > den THEN {q + 1}
        ELSE {q, q + 1}

\* round(ai_input / sys_voltage * 100, 2), in hundredths (line 135)
target_rates(ai_input, sys_voltage) == rounded(ai_input * 10000, sys_voltage)

\* The application of pump pump_number.
pump_app(pump_number) == IF pump_number = 1 THEN pump_1 ELSE pump_2

\* update_target_rate from line 128 on, after get_pot_reading returned
\* ai_input: pump_number is what line 126 read, sys_voltage the voltage tag.
\* None in the comparison or in the division raises TypeError.
update_target_rate_resumed(pump_number, ai_input, sys_voltage) ==
    /\ IF ai_input = None \/ last_ai_input = None
       THEN /\ raised' = Some("TypeError")
            /\ tagWrites' = << >>
            /\ last_ai_input' = last_ai_input
       ELSE IF in_band(last_ai_input[1], ai_input[1])
       THEN /\ raised' = None
            /\ tagWrites' = << >>
            /\ last_ai_input' = last_ai_input
       ELSE /\ raised' = None
            /\ \E target_rate \in
                   target_rates(ai_input[1],
                                voltage_or_default(sys_voltage)) :
                  tagWrites' = << TagWrite("TargetRatePercentage",
                                           target_rate,
                                           pump_app(pump_number)) >>
            /\ last_ai_input' = ai_input
    /\ prev_ai_input' = ai_input
    /\ lastOp' = "update_target_rate"
    /\ ret' = None
    /\ emitted' = << >>
    /\ log_errors' = << >>
    /\ UNCHANGED <<received, transport_down, updating, serving, handed,
                   wholes>>
    /\ UNCHANGED <<controllerVars, StateString, DO, AO, do_out, ao_out,
                   ioWrites, solar_controllers, SolarTags, solar_args>>

\* update_target_rate with potentiometer reading ai_input and voltage tag
\* sys_voltage, when nothing else runs while it awaits get_pot_reading.
update_target_rate(ai_input, sys_voltage) ==
    /\ awaiting = None
    /\ update_target_rate_resumed(getSelectedPump, ai_input, sys_voltage)
    /\ awaiting' = None

\* update_target_rate up to its first await: it reads the selection (line
\* 126) and awaits get_pot_reading (line 127), where the event loop runs
\* other coroutines.
update_target_rate_awaits ==
    /\ awaiting = None
    /\ awaiting' = Some(getSelectedPump)
    /\ lastOp' = "get_pot_reading"
    /\ ret' = None
    /\ emitted' = << >>
    /\ tagWrites' = << >>
    /\ log_errors' = << >>
    /\ UNCHANGED <<received, transport_down, updating, serving, handed,
                   wholes>>
    /\ UNCHANGED <<controllerVars, last_ai_input, prev_ai_input, raised,
                   StateString, DO, AO, do_out, ao_out, ioWrites,
                   solar_controllers, SolarTags, solar_args>>

\* get_pot_reading returns ai_input to the update_target_rate that awaits.
update_target_rate_resumes(ai_input, sys_voltage) ==
    /\ awaiting # None
    /\ update_target_rate_resumed(awaiting[1], ai_input, sys_voltage)
    /\ awaiting' = None

\* The state after setup() read the potentiometer, whatever it read.
InitTargetRate ==
    \E reading \in {None} \cup {Some(r) : r \in Readings} :
       InitWith(Controllers, reading)

NextTargetRate ==
    \/ \E ai_input \in {None} \cup {Some(r) : r \in Readings},
          sys_voltage \in Voltages :
          update_target_rate(ai_input, sys_voltage)
    \/ call_toggleSelectedPump

SpecTargetRate == InitTargetRate /\ [][NextTargetRate]_vars

\* The tick's update_target_rate with its await, and the selector button,
\* whose callback the event loop runs at any await.
NextAwait ==
    \/ update_target_rate_awaits
    \/ \E ai_input \in {None} \cup {Some(r) : r \in Readings},
          sys_voltage \in Voltages :
          update_target_rate_resumes(ai_input, sys_voltage)
    \/ selector_button_callback

SpecAwait == InitTargetRate /\ [][NextAwait]_vars

----------------------------------------------------------------------------
(* The dashboard refresh of a tick: update_dashboard_data reads the tags   *)
(* of the pumps, the solar controllers, the tank and the skid sensors and  *)
(* passes them to the snapshot, group by group.  Values are hundredths.    *)

\* config.solar_controllers.elements: the configured controllers, in the
\* order of the deployment configuration.
ControllerOrder == << "solar_1", "solar_2" >>

elements(controllers) == SelectSeq(ControllerOrder, LAMBDA c : c \in controllers)

\* The tags a solar controller publishes: nothing; 24.00 V, 80 %, 30.00 V at
\* the panel, 50 Ah; 26.00 V, 0 %, -10.00 V at the panel, 70 Ah; a panel
\* value of -50.00 alone; a battery voltage of 24.00 alone.
SolarReadings ==
    { NoReading,
      [b_voltage |-> Some(2400), b_percent |-> Some(8000),
       panel_voltage |-> Some(3000), remaining_ah |-> Some(5000)],
      [b_voltage |-> Some(2600), b_percent |-> Some(0),
       panel_voltage |-> Some(-1000), remaining_ah |-> Some(7000)],
      [NoReading EXCEPT !.panel_voltage = Some(-5000)],
      [NoReading EXCEPT !.b_voltage = Some(2400)] }

\* A solar controller publishes its tags.
publish_SolarTags(c, reading) ==
    /\ SolarTags[c] # reading
    /\ SolarTags' = [SolarTags EXCEPT ![c] = reading]
    /\ lastOp' = "publish_SolarTags"
    /\ ret' = None
    /\ emitted' = << >>
    /\ tagWrites' = << >>
    /\ log_errors' = << >>
    /\ UNCHANGED threadVars
    /\ UNCHANGED <<controllerVars, last_ai_input, prev_ai_input, raised,
                   StateString, DO, AO, do_out, ao_out, ioWrites,
                   solar_controllers, solar_args>>

\* The list the loop over the controllers collects for one tag: float(r) of
\* every r that is not None, in the order of the controllers.
RECURSIVE collected(_, _, _)
collected(tags, order, tag) ==
    IF order = << >>
    THEN << >>
    ELSE LET r == tags[Head(order)][tag]
             rest == collected(tags, Tail(order), tag)
         IN  IF r # None THEN << r[1] >> \o rest ELSE rest

\* sum(values)
RECURSIVE sum(_)
sum(values) == IF values = << >> THEN 0 ELSE Head(values) + sum(Tail(values))

\* average that divides by the number of configured controllers.
average_over_configured(values) ==
    IF values # << >> THEN sum(values) \div Len(elements(solar_controllers)) ELSE 0

\* sum(values) / len(values) or 0.0 for the empty list.  (The readings are
\* even numbers of hundredths and there are at most two of them, so the
\* quotient is exact.)
average(values) ==
    IF values # << >> THEN sum(values) \div Len(values) ELSE 0

\* The four aggregates of lines 215-254 (config.solar_controllers is an
\* object, true in the "if" whatever it lists).
solar_aggregates(tags, controllers) ==
    LET order == elements(controllers)
        battery_voltages == collected(tags, order, "b_voltage")
        battery_percentages == collected(tags, order, "b_percent")
        panel_voltage_values == collected(tags, order, "panel_voltage")
        battery_ah_values == collected(tags, order, "remaining_ah")
        panel_voltage == average(panel_voltage_values)
    IN  [battery_voltage |-> Some(average(battery_voltages)),
         battery_percentage |-> Some(average(battery_percentages)),
         array_voltage |-> Some(IF panel_voltage < 0 THEN 0 ELSE panel_voltage),
         battery_ah |-> Some(IF battery_ah_values # << >>
                             THEN sum(battery_ah_values)
                             ELSE 0)]

\* NAPDDashboard.update_data(**kwargs) on the snapshot r.data an earlier
\* call of the same tick left, its events appended to r.emitted.
update_data_on(r, kwargs) ==
    The({The({[data |-> u.data,
               emitted |-> IF u.changed
                           THEN x.emitted \o broadcast_update(u.data)
                           ELSE x.emitted] :
                 u \in {IF DOMAIN kwargs # {}
                        THEN update_from_dict(x.data, kwargs,
                                              x.data.timestamp + 1)
                        ELSE [data |-> x.data, changed |-> FALSE]}}) :
            x \in {r}})

\* The tags offered to a tick for the pumps, the tank and the skid sensors.
PumpTags == {[app \in Pumps |-> None], [pump_1 |-> Some(1006), pump_2 |-> None], [pump_1 |-> None, pump_2 |-> Some(1006)]}
SensorTags == {None, Some(150)}

\* update_dashboard_data with the tags it reads (the solar tags and the
\* pumps' StateString are state).
update_dashboard_data(TargetRate_tag, FlowRate_tag, level_reading, level_filled_percentage, flow_value, pressure_value) ==
    LET solar == solar_aggregates(SolarTags, solar_controllers)
        tank_level_mm == IF level_reading # None
                         THEN Some(level_reading[1] * 1000)
                         ELSE None
        r0 == [data |-> data, emitted |-> << >>]
        r1 == update_data_on(r0, update_group_kwargs("pump",
                  [target_rate |-> TargetRate_tag[pump_1],
                   flow_rate |-> FlowRate_tag[pump_1],
                   pump_state |-> StateString[pump_1]]))
        r2 == update_data_on(r1, update_group_kwargs("pump2",
                  [target_rate |-> TargetRate_tag[pump_2],
                   flow_rate |-> FlowRate_tag[pump_2],
                   pump_state |-> StateString[pump_2]]))
        r3 == update_data_on(r2, update_group_kwargs("solar",
                  [battery_voltage |-> solar.battery_voltage,
                   battery_percentage |-> solar.battery_percentage,
                   panel_power |-> solar.array_voltage,
                   battery_ah |-> solar.battery_ah]))
        r4 == update_data_on(r3, update_group_kwargs("tank",
                  [tank_level_mm |-> tank_level_mm,
                   tank_level_percent |-> level_filled_percentage]))
        r5 == update_data_on(r4, update_group_kwargs("skid",
                  [skid_flow |-> flow_value,
                   skid_pressure |-> pressure_value]))
    IN  \E r \in {r5} :
           /\ r.data.timestamp <= MaxTime
           /\ data' = r.data
           /\ emitted' = r.emitted
           /\ solar_args' = Some(solar)
           /\ lastOp' = "update_dashboard_data"
           /\ ret' = None
           /\ tagWrites' = << >>
           /\ log_errors' = << >>
           /\ UNCHANGED threadVars
           /\ UNCHANGED <<appVars, selected_pump, connected_clients, AppState,
                          histVars, announced, last_ai_input, prev_ai_input,
                          raised, StateString, DO, AO, do_out, ao_out,
                          ioWrites, solar_controllers, SolarTags>>

\* The state after setup(), whichever solar controllers are configured.
InitSolar == \E controllers \in SUBSET Controllers : InitWith(controllers, Some(1200))

NextSolar ==
    \/ \E c \in Controllers, reading \in SolarReadings :
          publish_SolarTags(c, reading)
    \/ \E TargetRate_tag \in PumpTags, level_reading \in SensorTags,
          pressure_value \in SensorTags :
          update_dashboard_data(TargetRate_tag, [app \in Pumps |-> None],
                                level_reading, None, None, pressure_value)
    \/ \E sid \in Subscribers : handle_connect(sid)

SpecSolar == InitSolar /\ [][NextSolar]_vars

----------------------------------------------------------------------------
(* main_loop: one tick is check_faults, update_target_rate,                *)
(* update_dashboard_data and update_pump_leds, each awaited in turn; an    *)
(* exception raised by a step leaves main_loop, and the steps after it are *)
(* not run in that tick.  lastOp is the step that ran last.  The pumps and *)
(* the platform publish between ticks.                                     *)

\* The steps of main_loop, in the order of its awaits (lines 71-74).
main_loop_steps ==
    << "check_faults", "update_target_rate", "update_dashboard_data",
       "update_pump_leds" >>

\* The step of main_loop that follows step.
next_step(step) ==
    main_loop_steps[1 + CHOOSE i \in 1..3 : main_loop_steps[i] = step]

\* The tick is inside main_loop after lastOp: a step other than the last one
\* returned without raising.
in_main_loop ==
    /\ lastOp \in {main_loop_steps[i] : i \in 1..3}
    /\ ~(lastOp = "update_target_rate" /\ raised # None)

\* The step main_loop runs next: the one after lastOp, or the first one when
\* a new tick starts.
main_loop_at(step) ==
    IF in_main_loop THEN step = next_step(lastOp) ELSE step = main_loop_steps[1]

\* The potentiometer readings offered to the ticks.
TickReadings == {None, Some(1200), Some(1300)}

\* main_loop, one step at a time.
main_loop ==
    \/ /\ main_loop_at("check_faults")
       /\ check_faults
    \/ /\ main_loop_at("update_target_rate")
       /\ \E ai_input \in TickReadings, sys_voltage \in {None, Some(2400)} :
             update_target_rate(ai_input, sys_voltage)
    \/ /\ main_loop_at("update_dashboard_data")
       /\ \E TargetRate_tag \in PumpTags :
             update_dashboard_data(TargetRate_tag, [app \in Pumps |-> None],
                                   None, None, None, None)
    \/ /\ main_loop_at("update_pump_leds")
       /\ update_pump_leds

NextTick ==
    \/ main_loop
    \/ /\ ~in_main_loop
       /\ \E app \in Pumps, value \in AppStates : publish_AppState(app, value)
    \/ /\ ~in_main_loop
       /\ \E app \in Pumps : publish_AO(app)

SpecTick == Init /\ [][NextTick]_vars

----------------------------------------------------------------------------
(* Properties of the controller (Spec) *)

Clean == {None, Some("running")}
Observed == {AppState[pump_1], AppState[pump_2]}

\* C1: a fault flag that is true stays true through every step (ticks that
\* observe any AppState values, start and stop edges, everything else) except
\* a selector-button edge.
C1_FaultFlagsSticky ==
    [][ (\/ hh_pressure_active /\ ~hh_pressure_active'
         \/ ll_tank_level_active /\ ~ll_tank_level_active')
        => lastOp' = "selector_button_callback" ]_vars

\* A tick observed only clean or unavailable statuses and the high-pressure
\* flag, set by an earlier tick, is still true.
C1_Witness ==
    /\ lastOp = "check_faults"
    /\ Observed \subseteq Clean
    /\ hh_pressure_active

\* C2: after check_faults the high-pressure flag is true if either status is
\* the pressure-high-high code and the low-tank flag is true if either status
\* is the tank-low-low code.
C2_FlagsSetIndependently ==
    lastOp = "check_faults" =>
        /\ Some(PRESSURE_HH) \in Observed => hh_pressure_active
        /\ Some(TANK_LL) \in Observed => ll_tank_level_active

\* C3: a selector-button edge with a fault flag active clears both flags,
\* keeps the selection and emits no pump_selection_changed; with no flag
\* active it toggles the selection and both flags stay false.
C3_SelectorEdge ==
    [][ lastOp' = "selector_button_callback" =>
        IF hh_pressure_active \/ ll_tank_level_active
        THEN /\ ~hh_pressure_active' /\ ~ll_tank_level_active'
             /\ selected_pump' = selected_pump
             /\ \A i \in DOMAIN emitted' :
                    emitted'[i].event # "pump_selection_changed"
        ELSE /\ selected_pump' = (IF selected_pump = 1 THEN 2 ELSE 1)
             /\ ~hh_pressure_active' /\ ~ll_tank_level_active' ]_vars

\* An edge acknowledged faults (the snapshot's faults were set and cleared,
\* the subscribers told) after an earlier edge had toggled to pump 2.
C3_Witness ==
    /\ lastOp = "selector_button_callback"
    /\ selected_pump = 2 /\ toggles = 1 /\ ~setUsed
    /\ data.timestamp = 2
    /\ Len(emitted) = 1 /\ emitted[1].event = "data_update"

\* C4: the first start edge writes no tag; every later one writes exactly one
\* StateWrite of 2, to the application of the pump selected at that edge.
C4_StartGuard ==
    lastOp = "start_pump_callback" =>
        /\ startEdges = 1 => tagWrites = << >>
        /\ startEdges >= 2 =>
              tagWrites = << [tag |-> "StateWrite", value |-> 2,
                              app |-> IF selected_pump = 1 THEN "pump_1"
                                                           ELSE "pump_2"] >>

\* The third start edge, with pump 2 selected.
C4_Witness ==
    /\ lastOp = "start_pump_callback"
    /\ startEdges = 3
    /\ selected_pump = 2
    /\ Len(tagWrites) = 1

\* C5: every stop edge writes exactly one StateWrite of 0, to the selected
\* pump's application, and changes neither the selection, the fault flags
\* nor the start guard.
C5_StopEdge ==
    [][ lastOp' = "stop_pump_callback" =>
        /\ tagWrites' = << [tag |-> "StateWrite", value |-> 0,
                            app |-> IF selected_pump = 1 THEN "pump_1"
                                                         ELSE "pump_2"] >>
        /\ selected_pump' = selected_pump
        /\ hh_pressure_active' = hh_pressure_active
        /\ ll_tank_level_active' = ll_tank_level_active
        /\ start_first_callback' = start_first_callback ]_vars

\* A stop edge before any start edge (the start guard not yet consumed), with
\* pump 2 selected and a fault active.
C5_Witness ==
    /\ lastOp = "stop_pump_callback"
    /\ ~start_first_callback
    /\ selected_pump = 2
    /\ hh_pressure_active
    /\ tagWrites = << [tag |-> "StateWrite", value |-> 0, app |-> "pump_2"] >>

\* C6: the selection is always 1 or 2 and starts at 1; with no
\* setSelectedPump it is 1 after an even number of toggles and 2 after an odd
\* number; a toggleSelectedPump call flips it and returns the new value.
C6_Selection ==
    /\ [](/\ selected_pump \in {1, 2}
          /\ ~setUsed => selected_pump = (IF toggles % 2 = 0 THEN 1 ELSE 2))
    /\ [][ toggles' # toggles =>
           /\ toggles' = toggles + 1
           /\ selected_pump' # selected_pump
           /\ lastOp' = "toggleSelectedPump" => ret' = Some(selected_pump')
         ]_vars

\* Three toggles and no setSelectedPump: pump 2 is selected, and the call
\* returned 2.
C6_Witness ==
    /\ lastOp = "toggleSelectedPump"
    /\ toggles = 3 /\ ~setUsed
    /\ selected_pump = 2 /\ ret = Some(2)

\* C7: setSelectedPump with an argument other than 1 and 2 is rejected (an
\* error is logged), the selection is unchanged and no event is emitted; with
\* 1 or 2 the selection becomes the argument and the call returns it.
C7_SetSelectedPump ==
    [][ \A n \in PumpNumbers : setSelectedPump(n) =>
          IF n \in {1, 2}
          THEN selected_pump' = n /\ ret' = Some(n)
          ELSE /\ selected_pump' = selected_pump
               /\ emitted' = << >>
               /\ log_errors' # << >> ]_vars

\* setSelectedPump(3) was rejected while pump 2 is selected.
C7_Witness ==
    /\ lastOp = "setSelectedPump"
    /\ log_errors = << <<"Invalid pump number", 3>> >>
    /\ selected_pump = 2
    /\ emitted = << >>

\* C13: a toggle_selected_pump message is only acknowledged: handling it
\* leaves the selected pump, both fault flags and the whole snapshot as they
\* are, emits no pump_selection_changed and no data_update, and sends one
\* acknowledgement, to the sender.
C13_ToggleMessageAckOnly ==
    [][lastOp' = "handle_toggle_selected_pump" =>
        /\ UNCHANGED <<selected_pump, hh_pressure_active,
                       ll_tank_level_active, data, announced>>
        /\ Len(emitted') = 1
        /\ emitted'[1].event = "pump_selection_toggled"
        /\ \A sid \in Subscribers :
              handle_toggle_selected_pump(sid) => emitted'[1].to = sid]_vars

\* With pump 2 selected and the pressure fault latched, sid1 asked for a
\* toggle and was sent the acknowledgement.
C13_Witness ==
    /\ lastOp = "handle_toggle_selected_pump"
    /\ selected_pump = 2
    /\ hh_pressure_active
    /\ data.faults.hh_pressure
    /\ emitted = << pump_selection_toggled("sid1") >>

\* C16: every change of the selection is announced at once on its own
\* stream: each toggleSelectedPump, called directly or by the selector
\* button, and each setSelectedPump with 1 or 2 emits exactly one
\* pump_selection_changed, to all subscribers and carrying the selection
\* after it, and nothing else; and whenever a pump_selection_changed event
\* has been emitted, the selection the last one carried is the current one.
C16_SelectionAnnounced ==
    /\ [][(selected_pump' # selected_pump \/ toggles' # toggles) =>
            emitted' = << pump_selection_changed(selected_pump') >>]_vars
    /\ [][lastOp' = "toggleSelectedPump" =>
            /\ selected_pump' = toggled(selected_pump)
            /\ emitted' = << pump_selection_changed(selected_pump') >>]_vars
    /\ [][\A n \in {1, 2} :
            setSelectedPump(n) =>
               emitted' = << pump_selection_changed(n) >>]_vars
    /\ [](announced # None => announced = Some(selected_pump))

\* After two toggles and with a subscriber connected, setSelectedPump(1)
\* announced pump 1.
C16_Witness ==
    /\ lastOp = "setSelectedPump"
    /\ toggles = 2
    /\ connected_clients # {}
    /\ selected_pump = 1
    /\ announced = Some(1)
    /\ emitted = << pump_selection_changed(1) >>

----------------------------------------------------------------------------
(* Properties of the telemetry snapshot (SpecDashboard) *)

\* The snapshot without its timestamp: the telemetry, status and fault fields.
Fields(d) == [d EXCEPT !.timestamp = 0]

\* The numeric fields of update_from_dict: the group and key they are read
\* from and the attribute they are stored in.
NumericFields ==
    {[group |-> "pump", key |-> k, attr |-> k] :
        k \in {"target_rate", "flow_rate"}}
    \cup {[group |-> "pump2", key |-> k, attr |-> "pump2_" \o k] :
        k \in {"target_rate", "flow_rate"}}
    \cup {[group |-> "solar", key |-> k, attr |-> k] :
        k \in {"battery_voltage", "battery_percentage", "panel_power",
               "battery_ah"}}
    \cup {[group |-> "tank", key |-> k, attr |-> k] :
        k \in {"tank_level_mm", "tank_level_percent"}}
    \cup {[group |-> "skid", key |-> k, attr |-> k] :
        k \in {"skid_flow", "skid_pressure"}}

\* update_from_dict({group: {key: v}}) on snapshot d, for numeric field f.
Offer(d, f, v) ==
    update_from_dict(d, [g \in {f.group} |-> [k \in {f.key} |-> Some(v)]],
                     d.timestamp + 1)

\* The values around stored value s that tell tolerance t apart: at the
\* tolerance and just beyond it, on both sides.
Probes(s, t) == {s - t - 1, s - t, s, s + t, s + t + 1}

TargetRate == [group |-> "pump", key |-> "target_rate", attr |-> "target_rate"]

\* The operations that offer values to the snapshot.
UpdateOps == {"update_pump_data", "update_pump2_data", "update_solar_data",
              "update_tank_data", "update_skid_data"}

\* The states an update_pump_data call leaves when it stored nothing new.
\* What an update does depends on the snapshot and on the subscribers only,
\* and update_pump_data with no value at all, which Offerable says is possible
\* in every state, leaves both as they are: every reachable snapshot, with
\* every set of subscribers it is reached with, is among these states.
Settled == lastOp = "update_pump_data" /\ emitted = << >>

Offerable == ENABLED update_pump_data(None, None, None)

\* C8: a step changes the snapshot's timestamp exactly when it also changes
\* at least one telemetry, status or fault field.  (The heartbeat thread
\* stamps the snapshot every second, and set_pump_state stamps it whatever
\* the state it stores.)
C8_TimestampIffFieldChange ==
    [][(data'.timestamp # data.timestamp) <=> (Fields(data') # Fields(data))]_vars

\* C9: offering v to a numeric field with tolerance t and stored value s
\* stores v, stamps the snapshot and returns true exactly when |v - s| > t,
\* and otherwise changes nothing and returns false; the comparison is with
\* the stored value: with target_rate stored as 10.00, 10.04 is refused and
\* 10.06 offered next is stored.  In every step of an update_*_data call a
\* numeric field moves only by more than its tolerance, and then the
\* timestamp advances.
C9_ToleranceGatedUpdate ==
    /\ []Offerable
    /\ [](Settled =>
          /\ \A f \in NumericFields :
                \A v \in Probes(data[f.attr], tolerance(f.attr)) :
                   LET r == Offer(data, f, v)
                   IN  IF Abs(v - data[f.attr]) > tolerance(f.attr)
                       THEN /\ r.changed
                            /\ r.data = [data EXCEPT ![f.attr] = v,
                                                     !.timestamp = datetime_now]
                       ELSE ~r.changed /\ r.data = data
          /\ data.target_rate = 1000 =>
                LET r1 == Offer(data, TargetRate, 1004)
                    r2 == Offer(r1.data, TargetRate, 1006)
                IN  /\ ~r1.changed
                    /\ r1.data = data
                    /\ r2.changed
                    /\ r2.data = [data EXCEPT !.target_rate = 1006,
                                              !.timestamp = datetime_now])
    /\ [][lastOp' \in UpdateOps =>
            \A f \in NumericFields :
               data'[f.attr] # data[f.attr] =>
                  /\ Abs(data'[f.attr] - data[f.attr]) > tolerance(f.attr)
                  /\ data'.timestamp = data.timestamp + 1]_vars

\* target_rate is stored as 10.00 and the last update_pump_data call, with a
\* subscriber connected, changed nothing; 10.04 would be refused and 10.06
\* stored.
C9_Witness ==
    /\ lastOp = "update_pump_data"
    /\ data.target_rate = 1000
    /\ data.timestamp = 1
    /\ connected_clients # {}
    /\ emitted = << >>
    /\ ~Offer(data, TargetRate, 1004).changed
    /\ Offer(data, TargetRate, 1006).data.target_rate = 1006

\* The arguments offered to each update_*_data method, by the group it fills.
GroupArgs ==
    [pump |-> PumpArgs, pump2 |-> Pump2Args, solar |-> SolarArgs,
     tank |-> TankArgs, skid |-> SkidArgs]

\* The attribute update_from_dict stores key of group in.
AttrOf(group, key) == IF group = "pump2" THEN "pump2_" \o key ELSE key

FaultKeys == {"hh_pressure", "ll_tank_level"}

\* The faults dicts offered: each key missing, None or a flag.
FaultArgs ==
    UNION {[keys -> {None, Some(TRUE), Some(FALSE)}] : keys \in SUBSET FaultKeys}

\* Input dict a has no value for key.
Absent(a, key) == key \notin DOMAIN a \/ a[key] = None

\* C10: an input that is absent, None or missing from its dict, never
\* overwrites the stored value: after the update every field whose input was
\* absent holds what it held before, whether the None values are dropped by
\* the update_*_data method or reach update_from_dict; and an update whose
\* inputs are all absent reports no change, leaves the snapshot and its
\* timestamp alone and emits nothing.
C10_AbsentNeverOverwrites ==
    /\ Offerable
    /\ Settled =>
          /\ \A g \in DOMAIN GroupArgs : \A a \in GroupArgs[g] :
                \A kw \in {update_group_kwargs(g, a), [x \in {g} |-> a]} :
                   LET r == update_data_result(kw)
                   IN  /\ \A k \in DOMAIN a :
                             Absent(a, k) =>
                                r.data[AttrOf(g, k)] = data[AttrOf(g, k)]
                       /\ \A attr \in DOMAIN data
                                      \ ({AttrOf(g, k) : k \in DOMAIN a}
                                         \cup {"timestamp"}) :
                             r.data[attr] = data[attr]
                       /\ (\A k \in DOMAIN a : Absent(a, k)) =>
                             ~r.changed /\ r.data = data /\ r.emitted = << >>
          /\ \A a \in FaultArgs :
                LET r == update_data_result([faults |-> a])
                IN  /\ \A k \in FaultKeys :
                          Absent(a, k) => r.data.faults[k] = data.faults[k]
                    /\ Fields([r.data EXCEPT !.faults = data.faults])
                          = Fields(data)
                    /\ (\A k \in FaultKeys : Absent(a, k)) =>
                          ~r.changed /\ r.data = data /\ r.emitted = << >>
          /\ \A a \in { << >>, [status |-> None]} :
                LET r == update_data_result([system |-> a])
                IN  ~r.changed /\ r.data = data /\ r.emitted = << >>

\* The last update_pump_data call, with a subscriber connected, stored one
\* of target_rate and flow_rate and was given nothing for the other, which
\* keeps the value stored before.
C10_Witness ==
    /\ lastOp = "update_pump_data"
    /\ data.target_rate = 1000
    /\ data.flow_rate = 6
    /\ data.timestamp = 2
    /\ connected_clients # {}
    /\ Len(emitted) = 1

\* The keyword arguments the model's calls of update_data carry.
OfferedKwargs ==
    UNION {{update_group_kwargs(g, a) : a \in GroupArgs[g]} :
             g \in DOMAIN GroupArgs}
    \cup {[faults |-> [hh_pressure |-> Some(hh), ll_tank_level |-> Some(ll)]] :
             hh \in BOOLEAN, ll \in BOOLEAN}
    \cup {[system |-> [status |-> Some(st)]] : st \in {"running", "standby"}}

\* The operations that end in update_data.
UpdateCalls == UpdateOps \cup {"update_system_status", "set_faults"}

\* The one data_update broadcast that carries snapshot d.
DataUpdateToAll(d) == << Event("data_update", "all", to_dict(d)) >>

\* C11: update_data emits a data_update broadcast, one, to all subscribers
\* and carrying the snapshot after the update, if and only if
\* update_from_dict returned true and a subscriber is connected; it returns
\* true exactly when a field changed, so an update that changes no field
\* emits nothing.  The same is seen on every step of a call that ends in
\* update_data.
C11_BroadcastOnChange ==
    /\ []Offerable
    /\ [](Settled =>
          \A kw \in OfferedKwargs :
             LET r == update_data_result(kw)
             IN  /\ r.changed <=> Fields(r.data) # Fields(data)
                 /\ r.emitted = IF r.changed /\ connected_clients # {}
                                 THEN DataUpdateToAll(r.data)
                                 ELSE << >>)
    /\ [][lastOp' \in UpdateCalls =>
            emitted' = IF Fields(data') # Fields(data) /\ connected_clients # {}
                       THEN DataUpdateToAll(data')
                       ELSE << >>]_vars

\* update_pump_data stored a new target rate with both subscribers connected
\* and broadcast the snapshot.
C11_Witness ==
    /\ lastOp = "update_pump_data"
    /\ connected_clients = Subscribers
    /\ data.target_rate = 1006
    /\ data.timestamp = 1
    /\ emitted = DataUpdateToAll(data)

\* The one data_update sent to socket sid alone, carrying snapshot d.
DataUpdateTo(sid, d) == << Event("data_update", sid, to_dict(d)) >>

\* C12: on connect and on request_data the socket that triggered it, and no
\* other, is sent exactly one data_update carrying the full current
\* snapshot, whatever changed before; the snapshot is left as it is; a
\* connecting socket is in connected_clients from then on, and a socket
\* leaves connected_clients only by its own disconnect.
C12_ConnectAndRequest ==
    /\ [][lastOp' = "handle_connect" =>
            \A sid \in Subscribers :
               handle_connect(sid) =>
                  /\ emitted' = DataUpdateTo(sid, data)
                  /\ sid \in connected_clients'
                  /\ data' = data]_vars
    /\ [][lastOp' = "handle_data_request" =>
            \A sid \in Subscribers :
               handle_data_request(sid) =>
                  /\ emitted' = DataUpdateTo(sid, data)
                  /\ UNCHANGED <<data, connected_clients>>]_vars
    /\ [][\A sid \in connected_clients \ connected_clients' :
            /\ lastOp' = "handle_disconnect"
            /\ connected_clients' = connected_clients \ {sid}]_vars

\* With both subscribers connected and the snapshot changed twice, sid2 asked
\* for the data and was the only one answered.
C12_Witness ==
    /\ lastOp = "handle_data_request"
    /\ connected_clients = Subscribers
    /\ data.timestamp = 2
    /\ data.target_rate = 1000
    /\ emitted = DataUpdateTo("sid2", data)

\* C14: a set_pump_state message whose payload has a state field stores that
\* value as the pump-1 state string, leaves every other telemetry, status
\* and fault field alone and broadcasts one data_update with the snapshot
\* as it is then to all subscribers; a payload without a state field changes
\* nothing and emits nothing.
C14_SetPumpState ==
    [][lastOp' = "handle_pump_state_change" =>
        \A sid \in Subscribers, payload \in Payloads :
           handle_pump_state_change(sid, payload) =>
              IF "state" \in DOMAIN payload
              THEN /\ data'.pump_state = payload.state
                   /\ Fields(data') = Fields([data EXCEPT
                                                !.pump_state = payload.state])
                   /\ emitted' = DataUpdateToAll(data')
              ELSE data' = data /\ emitted' = << >>]_vars

\* sid1, the only subscriber, set the pump state to "fault" and was sent the
\* snapshot that holds it.
C14_Witness ==
    /\ lastOp = "handle_pump_state_change"
    /\ connected_clients = {"sid1"}
    /\ data.pump_state = "fault"
    /\ data.timestamp = 2
    /\ emitted = DataUpdateToAll(data)

\* C15: a set_pump_state message whose state is none of standby, pumping and
\* fault is rejected: the snapshot, its timestamp included, is as before and
\* no data_update is broadcast.  (The handler stores any state it is sent.)
C15_InvalidStateRejected ==
    [][lastOp' = "handle_pump_state_change" =>
        \A sid \in Subscribers, payload \in Payloads :
           (/\ handle_pump_state_change(sid, payload)
            /\ "state" \in DOMAIN payload
            /\ payload.state \notin PumpStates) =>
              data' = data /\ emitted' = << >>]_vars

----------------------------------------------------------------------------
(* Properties of the LEDs (SpecLeds) *)

\* The set_do writes of a tick to the start LED of app, in order.
StartLedWrites(writes, app) ==
    SelectSeq(writes, LAMBDA w : w.op = "set_do" /\ w.pin = app)

\* C17: the start LEDs are driven on a level change only.  In every tick and
\* for each pump, the LED is written on exactly when the state is pumping and
\* the LED does not read on, written off exactly when the state is standby
\* and the LED reads on, and written at most once; a state that is neither
\* (fault, or no state) writes nothing; and when the readback shows the
\* level last driven and that level is the one of the state, a further tick
\* writes nothing.
C17_StartLedOnChange ==
    [][lastOp' = "update_pump_leds" =>
        \A app \in Pumps :
           LET w == StartLedWrites(ioWrites', app)
               on == << IoWrite("set_do", app, TRUE) >>
               off == << IoWrite("set_do", app, FALSE) >>
           IN  /\ w \in {<< >>, on, off}
               /\ w = on <=> (/\ StateString[app] = Some("pumping")
                               /\ DO[app] # Some(TRUE))
               /\ w = off <=> (/\ StateString[app] = Some("standby")
                                /\ DO[app] = Some(TRUE))
               /\ StateString[app] \notin {Some("pumping"), Some("standby")}
                     => w = << >>
               /\ (/\ DO[app] = Some(do_out[app])
                    /\ StateString[app] =
                          Some(IF do_out[app] THEN "pumping" ELSE "standby"))
                     => w = << >>]_vars

\* Pump 1 is pumping, its LED was driven on and reads on, pump 2 is in
\* fault with its LED still on: the tick wrote nothing.
C17_Witness ==
    /\ lastOp = "update_pump_leds"
    /\ StateString = [pump_1 |-> Some("pumping"), pump_2 |-> Some("fault")]
    /\ do_out = [pump_1 |-> TRUE, pump_2 |-> TRUE]
    /\ DO = [pump_1 |-> Some(TRUE), pump_2 |-> Some(TRUE)]
    /\ ioWrites = << >>

----------------------------------------------------------------------------
(* Properties of the target rate (SpecTargetRate) *)

\* The readings and voltages offered to a tick.
OfferedReadings == {None} \cup {Some(r) : r \in Readings}

\* x is num / den rounded to an integer (den # 0), and nothing when den = 0
\* unless num = 0.
IsRounded(x, num, den) == 2 * Abs(x * den - num) <= Abs(den)

\* C18: in every tick, a reading strictly within 1% of the reading of the
\* tick before writes no TargetRatePercentage, and a reading outside that
\* band writes exactly one, to the selected pump.  (The code compares with
\* last_ai_input, the reading of the last tick that wrote, so a slow drift
\* does write, and a reading that comes back towards the last written one
\* does not.)
C18_SuppressWithinOnePercent ==
    [][(/\ lastOp' = "update_target_rate"
        /\ prev_ai_input # None
        /\ prev_ai_input' # None) =>
          IF in_band(prev_ai_input[1], prev_ai_input'[1])
          THEN tagWrites' = << >>
          ELSE /\ Len(tagWrites') = 1
               /\ tagWrites'[1].tag = "TargetRatePercentage"
               /\ tagWrites'[1].app = pump_app(selected_pump)]_vars

\* C19 as stated: the value written is reading / V * 100 rounded to two
\* decimals, V being the voltage tag whenever it has a value and 25.0 when
\* it has none.
C19_TargetRateOfReportedVoltage ==
    [][lastOp' = "update_target_rate" =>
        \A ai_input \in OfferedReadings, sys_voltage \in Voltages :
           (update_target_rate(ai_input, sys_voltage) /\ tagWrites' # << >>) =>
              IsRounded(tagWrites'[1].value, ai_input[1] * 10000,
                        IF sys_voltage = None THEN 2500 ELSE sys_voltage[1])]_vars

\* C19, amended: the value written is reading / V * 100 rounded to two
\* decimals, V being the voltage tag when it has a value other than zero and
\* 25.0 when it has none or is zero (so 12.5 at 25.0 gives 50.00); the
\* tick is defined for every reading and every voltage, and with readings
\* that are numbers it raises nothing.
C19_TargetRate ==
    /\ [][lastOp' = "update_target_rate" =>
            \A ai_input \in OfferedReadings, sys_voltage \in Voltages :
               (/\ update_target_rate(ai_input, sys_voltage)
                /\ tagWrites' # << >>) =>
                  /\ Len(tagWrites') = 1
                  /\ tagWrites'[1].tag = "TargetRatePercentage"
                  /\ IsRounded(tagWrites'[1].value, ai_input[1] * 10000,
                               IF sys_voltage \in {None, Some(0)}
                               THEN 2500
                               ELSE sys_voltage[1])
                  /\ (ai_input = Some(1250)
                      /\ sys_voltage \in {None, Some(0), Some(2500)})
                        => tagWrites'[1].value = 5000]_vars
    /\ [](\A ai_input \in OfferedReadings, sys_voltage \in Voltages :
             ENABLED update_target_rate(ai_input, sys_voltage))
    /\ [][(/\ lastOp' = "update_target_rate"
            /\ last_ai_input # None
            /\ prev_ai_input' # None) => raised' = None]_vars

\* With pump 2 selected, a reading of 12.50 was not suppressed and 50.00 was
\* written to pump 2.
C19_Witness ==
    /\ lastOp = "update_target_rate"
    /\ selected_pump = 2
    /\ prev_ai_input = Some(1250)
    /\ last_ai_input = Some(1250)
    /\ tagWrites = << TagWrite("TargetRatePercentage", 5000, pump_2) >>

----------------------------------------------------------------------------
(* Properties of the dashboard refresh (SpecSolar) *)

\* The configured controllers that have a reading of the tag.
Reporting(tag) == {c \in solar_controllers : SolarTags[c][tag] # None}

\* The sum of the tag's readings over the controllers cs.
RECURSIVE Total(_, _)
Total(cs, tag) ==
    IF cs = {}
    THEN 0
    ELSE LET c == CHOOSE one \in cs : TRUE
         IN  SolarTags[c][tag][1] + Total(cs \ {c}, tag)

\* x is the average of the tag's available readings, 0 when there is none.
IsAverage(x, tag) ==
    IF Reporting(tag) = {}
    THEN x = Some(0)
    ELSE x # None /\ x[1] * Cardinality(Reporting(tag)) = Total(Reporting(tag), tag)

----------------------------------------------------------------------------
(* Further properties of the controller (Spec) *)

----------------------------------------------------------------------------
(* Further properties of the target rate (SpecTargetRate) *)

\* C30: whatever the stored previous reading is (0 and negative values
\* included), a tick whose potentiometer reading equals it writes no
\* TargetRatePercentage and leaves the stored reading as it is.
C30_UnchangedReadingSuppressed ==
    [][(/\ lastOp' = "update_target_rate"
        /\ last_ai_input # None
        /\ prev_ai_input' = last_ai_input) =>
          /\ tagWrites' = << >>
          /\ last_ai_input' = last_ai_input]_vars

----------------------------------------------------------------------------
(* Properties of the fault LEDs (SpecFaultLeds) *)

\* The set_ao writes among the writes of a step.
FaultLedWrites(writes) == SelectSeq(writes, LAMBDA w : w.op = "set_ao")

\* C29: after the LED step of a tick both fault-LED outputs are at 100 if a
\* fault flag is active and at 0 if none is, whatever the fault-LED tags
\* read (unavailable included), and a step that finds both outputs at that
\* level already writes nothing to them.
C29_FaultLedsTrackLatch ==
    [][lastOp' = "update_pump_leds" =>
         LET level == IF hh_pressure_active \/ ll_tank_level_active
                      THEN 10000
                      ELSE 0
         IN  /\ \A app \in Pumps : ao_out'[app] = level
             /\ (\A app \in Pumps : ao_out[app] = level)
                   => FaultLedWrites(ioWrites') = << >>]_vars

----------------------------------------------------------------------------
(* Properties of the tick (SpecTick) *)

\* C25: a tick in which the potentiometer read (or another upstream read)
\* returns no value is not aborted: update_target_rate raises nothing,
\* writes nothing and keeps the stored reading, and every step is followed
\* by the next step of the same tick, so that a new tick starts only after
\* the LED step of the one before.
C25_TickNotAborted ==
    [][/\ lastOp' = "update_target_rate" =>
             /\ raised' = None
             /\ prev_ai_input' = None =>
                   tagWrites' = << >> /\ last_ai_input' = last_ai_input
       /\ lastOp' = "update_dashboard_data" => lastOp = "update_target_rate"
       /\ lastOp' = "update_pump_leds" => lastOp = "update_dashboard_data"
       /\ lastOp' = "check_faults" =>
             lastOp \notin {"check_faults", "update_target_rate",
                            "update_dashboard_data"}]_vars

\* C26: in every tick the steps run in the order fault observation, LED
\* driving, target-rate recomputation, telemetry update: the LED step
\* directly follows check_faults and precedes the tick's target-rate and
\* telemetry steps.
C26_TickStepOrder ==
    [][/\ lastOp' = "update_pump_leds" => lastOp = "check_faults"
       /\ lastOp' = "update_target_rate" => lastOp = "update_pump_leds"
       /\ lastOp' = "update_dashboard_data" =>
             lastOp = "update_target_rate"]_vars

----------------------------------------------------------------------------
(* Properties of update_target_rate with its await (SpecAwait) *)

\* C24: the TargetRatePercentage write of a tick is addressed to the pump
\* that is selected at the moment of the write, and the other pump is
\* written nothing, also when a selector-button edge was handled while
\* update_target_rate awaited the potentiometer read.
C24_WriteToSelectedPump ==
    [][lastOp' = "update_target_rate" =>
         \A i \in DOMAIN tagWrites' :
            tagWrites'[i].tag = "TargetRatePercentage" =>
               tagWrites'[i].app = pump_app(selected_pump')]_vars

----------------------------------------------------------------------------
(* The fault flags shown to the subscribers (Spec) *)

\* The flags of the application, as the faults of a snapshot document.
Latch == [hh_pressure |-> hh_pressure_active, ll_tank_level |-> ll_tank_level_active]

\* C28: after every check_faults step and every fault-acknowledging
\* selector edge the snapshot's faults equal the application's flags (and so
\* in every state, whatever steps interleave), and every step that changes a
\* flag stamps the snapshot and, if a subscriber is connected, emits one
\* data_update to all of them that carries the new flags.
C28_SnapshotFaultsFollowLatch ==
    /\ [](data.faults = Latch)
    /\ [][(hh_pressure_active' # hh_pressure_active
           \/ ll_tank_level_active' # ll_tank_level_active) =>
            /\ lastOp' \in {"check_faults", "selector_button_callback"}
            /\ data'.faults = Latch'
            /\ data'.timestamp = data.timestamp + 1
            /\ IF connected_clients = {}
               THEN emitted' = << >>
               ELSE /\ emitted' = << Event("data_update", "all",
                                           to_dict(data')) >>
                    /\ emitted'[1].payload.faults = Latch']_vars

\* A selector edge acknowledged a latched high-pressure fault while a
\* subscriber was connected: the flags and the snapshot's faults are false
\* and the data_update carrying them went out.
C28_Witness ==
    /\ lastOp = "selector_button_callback"
    /\ connected_clients # {}
    /\ data.faults = [hh_pressure |-> FALSE, ll_tank_level |-> FALSE]
    /\ ~hh_pressure_active
    /\ Some(PRESSURE_HH) \in Observed
    /\ emitted # << >>
    /\ emitted[1].event = "data_update"
    /\ emitted[1].payload.faults = data.faults

----------------------------------------------------------------------------
(* Properties of the delivery (SpecDelivery, SpecDeliveryFair) *)

\* The last data_update the events emitted hold for every subscriber.
Broadcast ==
    SelectSeq(emitted, LAMBDA event : event.event = "data_update" /\ event.to = "all")

----------------------------------------------------------------------------
(* Properties of the threads (SpecThreads) *)

\* C23: every document to_dict hands out is the snapshot as it stood before
\* or after a whole update operation (an update_from_dict call or a
\* heartbeat write), never fields from the middle of one.
C23_NoTornRead ==
    handed # None =>
       \E whole \in wholes \cup {DashboardData_init} : handed[1] = to_dict(whole)

====
